---- MODULE Spec2Model ----
(***************************************************************************)
(* Request lifecycle of the korelium.org course-catalog backend: process   *)
(* startup, the JWT auth gate, admin login, and the course handlers over   *)
(* the Course table; and of its single-page frontend: the session kept by  *)
(* AuthManager and the hash router.                                        *)
(***************************************************************************)
EXTENDS Integers, Sequences, FiniteSets, TLC

VARIABLES now, admins, courses, nextId, supplied, localAdmins, issued, req, res,
          server, client, router, calls, app, debounced, seed

vars == <<now, admins, courses, nextId, supplied, localAdmins, issued, req, res,
          server, client, router, calls,
                 app, debounced, seed>>

(* ---------------------------------------------------------------------- *)
(* Bounds                                                                  *)
(* ---------------------------------------------------------------------- *)
MaxTime == 3
MaxCourses == 2
MaxTokens == 1
MaxLen == 2
MaxClients == 2
MaxRuns == 3
MaxCalls == 3

(* ---------------------------------------------------------------------- *)
(* JavaScript values: undefined/null, strings (as sequences of            *)
(* characters), arrays of strings, and other parsed JSON values.           *)
(* ---------------------------------------------------------------------- *)
Undef == [t |-> "undefined", text |-> <<>>, items |-> <<>>]
Str(txt) == [t |-> "string", text |-> txt, items |-> <<>>]
Arr(xs) == [t |-> "array", text |-> <<>>, items |-> xs]
Num(n) == [t |-> "number", text |-> <<n>>, items |-> <<>>]
Obj == [t |-> "object", text |-> <<>>, items |-> <<>>]

\* JavaScript truthiness: undefined/null, "" and 0 are falsy
Truthy(v) ==
  CASE v.t = "undefined" -> FALSE
    [] v.t = "string" -> v.text # <<>>
    [] v.t = "number" -> v.text # <<"0">>
    [] OTHER -> TRUE

IsArray(v) == v.t = "array"

\* the characters array elements are made of
Strs == {"a", "b"}
Digits == {"0", "5"}

RECURSIVE SeqsUpTo(_, _)
SeqsUpTo(S, n) ==
  IF n = 0 THEN {<<>>}
  ELSE LET shorter == SeqsUpTo(S, n - 1)
       IN shorter \cup {Append(s, x) : s \in {q \in shorter : Len(q) = n - 1}, x \in S}

Arrays == SeqsUpTo(Strs, MaxLen)

(* ---------------------------------------------------------------------- *)
(* JSON.stringify / JSON.parse over character sequences                    *)
(* ---------------------------------------------------------------------- *)
StringifyStr(e) == <<"\"", e, "\"">>

RECURSIVE StringifyItems(_)
StringifyItems(xs) ==
  IF xs = <<>> THEN <<>>
  ELSE IF Len(xs) = 1 THEN StringifyStr(Head(xs))
  ELSE StringifyStr(Head(xs)) \o <<",">> \o StringifyItems(Tail(xs))

\* JSON.stringify of an array of strings, as text
JSONstringify(v) == Str(<<"[">> \o StringifyItems(v.items) \o <<"]">>)

Failed == [ok |-> FALSE, val |-> Undef]
Parsed(v) == [ok |-> TRUE, val |-> v]

\* a string literal "x" occupying exactly three characters
IsStrLit(s) == Len(s) = 3 /\ s[1] = "\"" /\ s[3] = "\"" /\ s[2] \in Strs

\* the elements between the brackets: lit ("," lit)*
RECURSIVE ParseItems(_)
ParseItems(s) ==
  IF Len(s) < 3 \/ ~IsStrLit(SubSeq(s, 1, 3)) THEN Failed
  ELSE IF Len(s) = 3 THEN [ok |-> TRUE, val |-> Arr(<<s[2]>>)]
  ELSE IF s[4] # "," THEN Failed
  ELSE LET rest == ParseItems(SubSeq(s, 5, Len(s)))
       IN IF rest.ok THEN Parsed(Arr(<<s[2]>> \o rest.val.items)) ELSE Failed

\* JSON.parse of a text: the parsed value, or ok = FALSE for a SyntaxError
JSONparseText(s) ==
  IF s = <<>> THEN Failed
  ELSE IF s = <<"[", "]">> THEN Parsed(Arr(<<>>))
  ELSE IF s = <<"{", "}">> THEN Parsed(Obj)
  ELSE IF Len(s) = 1 /\ s[1] \in Digits THEN Parsed(Num(s[1]))
  ELSE IF IsStrLit(s) THEN Parsed(Str(<<s[2]>>))
  ELSE IF Len(s) >= 2 /\ s[1] = "[" /\ s[Len(s)] = "]"
       THEN ParseItems(SubSeq(s, 2, Len(s) - 1))
  ELSE Failed

\* JSON.parse applied to any value: a non-string argument is first converted
\* to a string (a number to its digits, an object to "[object Object]",
\* an array of strings to its comma-joined elements)
JSONparse(v) ==
  CASE v.t = "string" -> JSONparseText(v.text)
    [] v.t = "number" -> Parsed(v)
    [] v.t = "array" -> IF Len(v.items) = 0 THEN Failed
                        ELSE IF Len(v.items) = 1 /\ v.items[1] \in Digits
                             THEN Parsed(Num(v.items[1])) ELSE Failed
    [] OTHER -> Failed

(* ---------------------------------------------------------------------- *)
(* Tokens                                                                  *)
(* ---------------------------------------------------------------------- *)
\* process.env.JWT_SECRET || 'korelium', read by the gate and by login
SECRET_KEY == "korelium"
\* mutant: login signs with another secret than the gate verifies with
SIGN_KEY_Mut == "secret"
SIGN_KEY == "korelium"

\* expiresIn: '1h', in clock ticks of half an hour
ExpiresIn == 2

NoToken == [adminId |-> 0, username |-> "", iat |-> 0, exp |-> 0, sig |-> ""]

\* jwt.sign(payload, key, {expiresIn})
jwtSign(adminId, username, key, at) ==
  [adminId |-> adminId, username |-> username, iat |-> at,
   exp |-> at + ExpiresIn, sig |-> key]

Payload(t) == [adminId |-> t.adminId, username |-> t.username,
               iat |-> t.iat, exp |-> t.exp]
NoUser == Payload(NoToken)

\* characters of an Authorization header: a space, a word, or a whole JWT
Sp == [c |-> "sp", tok |-> NoToken]
Bearer == [c |-> "word", tok |-> NoToken]
J(t) == [c |-> "jwt", tok |-> t]

NoHeader == [present |-> FALSE, chars |-> <<>>]
Hdr(cs) == [present |-> TRUE, chars |-> cs]

\* String.prototype.split(' ')
RECURSIVE SplitFrom(_, _)
SplitFrom(cs, cur) ==
  IF cs = <<>> THEN <<cur>>
  ELSE IF Head(cs) = Sp THEN <<cur>> \o SplitFrom(Tail(cs), <<>>)
  ELSE SplitFrom(Tail(cs), Append(cur, Head(cs)))

Split(cs) == SplitFrom(cs, <<>>)

\* mutant: the first part of the header is taken for the token
ExtractToken_Mut(h) ==
  IF ~h.present \/ h.chars = <<>> THEN <<>>
  ELSE Split(h.chars)[1]

\* authHeader && authHeader.split(' ')[1]; <<>> stands for every falsy result
ExtractToken(h) ==
  IF ~h.present \/ h.chars = <<>> THEN <<>>
  ELSE LET parts == Split(h.chars)
       IN IF Len(parts) >= 2 THEN parts[2] ELSE <<>>

\* mutant: verification that also consults the tokens logout has dropped
jwtVerify_Revoking(tokenText, key, at) ==
  /\ Len(tokenText) = 1
  /\ tokenText[1].c = "jwt"
  /\ tokenText[1].tok.sig = key
  /\ at < tokenText[1].tok.exp
  /\ \A d \in client.dropped : d.token # tokenText[1].tok

\* mutant: verification that ignores the expiry
jwtVerify_Mut(tokenText, key, at) ==
  /\ Len(tokenText) = 1
  /\ tokenText[1].c = "jwt"
  /\ tokenText[1].tok.sig = key

\* jwt.verify(token, key): the text must be one well-formed JWT, signed with
\* the key and not expired (expired once clock >= exp)
jwtVerify(tokenText, key, at) ==
  /\ Len(tokenText) = 1
  /\ tokenText[1].c = "jwt"
  /\ tokenText[1].tok.sig = key
  /\ at < tokenText[1].tok.exp

(* ---------------------------------------------------------------------- *)
(* Store records                                                           *)
(* ---------------------------------------------------------------------- *)
\* bcrypt.hash(password, saltRounds) and bcrypt.compare(password, hash)
bcryptHash(pw) == [alg |-> "bcrypt", of |-> pw]
bcryptCompare(pw, hash) == hash.of = pw

\* the Admin table after the seed script ran with ('pown', '1234')
SeedAdmins == {[id |-> 1, username |-> "pown", password |-> bcryptHash("1234")]}

NoCourse == [id |-> 0, title |-> Undef, category |-> Undef, image |-> Undef,
             tags |-> Undef, whatYoullLearn |-> Undef]

CatA == Str(<<"A">>)
CatB == Str(<<"B">>)
Intro == Str(<<"Intro">>)

\* Model.findAll(): every row, in primary-key order
findAll == courses

Ids(cs) == {cs[i].id : i \in 1..Len(cs)}

(* ---------------------------------------------------------------------- *)
(* Requests and responses                                                  *)
(* ---------------------------------------------------------------------- *)
NoBody == [none |-> TRUE]
NoRes == [sent |-> 0, status |-> 0, message |-> "", username |-> "",
          token |-> NoToken, list |-> <<>>, course |-> NoCourse]

Idle == [pc |-> "idle", route |-> "", idx |-> 0, header |-> NoHeader,
         body |-> NoBody, category |-> Undef, id |-> 0, filePart |-> Undef,
         file |-> Undef, fault |-> FALSE, user |-> NoUser, nextCalls |-> 0,
         gateAt |-> 0, ran |-> <<>>]

\* res.status(s).json({message}) on the response so far
Json(r, s, m) == [r EXCEPT !.sent = @ + 1, !.status = s, !.message = m]

\* mutant: a catch block that answers as if nothing had failed
ServerError_Mut(r) == Json(r, 200, "Server error")

\* the catch blocks: res.status(500).json({message: 'Server error', ...})
ServerError(r) == Json(r, 500, "Server error")

(* ---------------------------------------------------------------------- *)
(* Route table: each route's handler stack, in the order express runs it   *)
(* ---------------------------------------------------------------------- *)
LoginStack == <<"login">>
GetCoursesStack == <<"authenticateToken", "getAllCourses">>
PostCoursesStack == <<"authenticateToken", "upload", "createCourse">>
PutCourseStack == <<"authenticateToken", "upload", "updateCourse">>
\* mutant: the delete route registered without the gate
DeleteCourseStack_Mut == <<"deleteCourse">>
DeleteCourseStack == <<"authenticateToken", "deleteCourse">>
LocalAdminsStack == <<"authenticateToken", "createLocalAdmin">>
PublicCoursesStack == <<"publicCourses">>

CourseRoutes == {"GET /api/courses", "POST /api/courses",
                 "PUT /api/courses/:id", "DELETE /api/courses/:id"}
AdminRoutes == CourseRoutes \cup {"POST /api/localadmins"}
RouteKeys == AdminRoutes \cup {"POST /api/admin/login", "GET /public/courses"}

Stack(route) ==
  CASE route = "POST /api/admin/login" -> LoginStack
    [] route = "GET /api/courses" -> GetCoursesStack
    [] route = "POST /api/courses" -> PostCoursesStack
    [] route = "PUT /api/courses/:id" -> PutCourseStack
    [] route = "DELETE /api/courses/:id" -> DeleteCourseStack
    [] route = "POST /api/localadmins" -> LocalAdminsStack
    [] route = "GET /public/courses" -> PublicCoursesStack

\* the handler express is about to run for the request in flight
Current ==
  IF req.pc = "run" /\ req.idx <= Len(Stack(req.route))
  THEN Stack(req.route)[req.idx] ELSE "none"

\* next(): hand the request to the next handler of the stack
Proceed(r, h) == [r EXCEPT !.idx = @ + 1, !.ran = Append(@, h)]
\* the handler answered: the request is finished
Finish(r, h) == [r EXCEPT !.pc = "done", !.ran = Append(@, h)]
\* a handler's run; fault tells whether its store or library call threw
Handled(r, h, fault) == [Finish(r, h) EXCEPT !.fault = fault]

(* ---------------------------------------------------------------------- *)
(* Auth gate                                                               *)
(* ---------------------------------------------------------------------- *)
NoTokenResponse(r) == Json(r, 401, "Access denied. No token provided.")
BadTokenResponse(r) == Json(r, 403, "Invalid or expired token.")

\* mutant: the response is sent without the return, and next() follows
GateReject_Mut(r, at) ==
  [Proceed(r, "authenticateToken") EXCEPT !.nextCalls = @ + 1, !.gateAt = at]

\* return res.status(...).json(...): the request ends at the gate
\* (gateAt records when the gate ran)
GateReject(r, at) == [Finish(r, "authenticateToken") EXCEPT !.gateAt = at]

\* mutant: next() without attaching the decoded payload
GatePass_Mut(r, tok, at) ==
  [r EXCEPT !.idx = @ + 1, !.ran = Append(@, "authenticateToken"),
            !.nextCalls = @ + 1, !.gateAt = at]

\* req.user = decoded; next()
GatePass(r, tok, at) ==
  [Proceed(r, "authenticateToken") EXCEPT !.user = Payload(tok),
                                          !.nextCalls = @ + 1,
                                          !.gateAt = at]

AuthenticateToken ==
  /\ Current = "authenticateToken"
  /\ LET token == ExtractToken(req.header)
     IN IF token = <<>>
        THEN /\ res' = NoTokenResponse(res)
             /\ req' = GateReject(req, now)
        ELSE IF ~jwtVerify(token, SECRET_KEY, now)
        THEN /\ res' = BadTokenResponse(res)
             /\ req' = GateReject(req, now)
        ELSE /\ req' = GatePass(req, token[1].tok, now)
             /\ res' = res
  /\ UNCHANGED <<now, admins, courses, nextId, supplied, localAdmins, issued,
               server, client, router, calls,
                 app, debounced, seed>>

(* ---------------------------------------------------------------------- *)
(* Login                                                                   *)
(* ---------------------------------------------------------------------- *)
\* mutant: an unknown username answered differently from a wrong password
UnknownUserResponse_Mut(r) == Json(r, 404, "Admin not found")
UnknownUserResponse(r) == Json(r, 401, "Invalid username or password")
WrongPasswordResponse(r) == Json(r, 401, "Invalid username or password")

\* Admin.findOne({where: {username}})
FindAdmin(username) == {a \in admins : a.username = username}

LoginToken(admin) == jwtSign(admin.id, admin.username, SIGN_KEY, now)

LoginSuccess(r, admin) ==
  [r EXCEPT !.sent = @ + 1, !.status = 200, !.message = "Login successful",
            !.username = admin.username, !.token = LoginToken(admin)]

Login ==
  /\ Current = "login"
  /\ \E fault \in BOOLEAN :
       /\ req' = Handled(req, "login", fault)
       /\ IF fault
          THEN /\ res' = ServerError(res)
               /\ issued' = issued
          ELSE IF FindAdmin(req.body.username) = {}
          THEN /\ res' = UnknownUserResponse(res)
               /\ issued' = issued
          ELSE LET admin == CHOOSE a \in FindAdmin(req.body.username) : TRUE
               IN IF ~bcryptCompare(req.body.password, admin.password)
                  THEN /\ res' = WrongPasswordResponse(res)
                       /\ issued' = issued
                  ELSE /\ res' = LoginSuccess(res, admin)
                       /\ issued' = issued \cup {LoginToken(admin)}
  /\ UNCHANGED <<now, admins, courses, nextId, supplied, localAdmins,
               server, client, router, calls,
                 app, debounced, seed>>

(* ---------------------------------------------------------------------- *)
(* Upload middleware (multer upload.single('image'))                       *)
(* ---------------------------------------------------------------------- *)
Upload ==
  /\ Current = "upload"
  /\ req' = [Proceed(req, "upload") EXCEPT !.file = req.filePart]
  /\ UNCHANGED <<now, admins, courses, nextId, supplied, localAdmins, issued, res,
               server, client, router, calls,
                 app, debounced, seed>>

(* ---------------------------------------------------------------------- *)
(* Course handlers                                                         *)
(* ---------------------------------------------------------------------- *)
\* the listing of the authenticated route: JSON.parse(course.tags || '[]')
AdminParseTags(v) == IF Truthy(v) THEN JSONparse(v) ELSE Parsed(Arr(<<>>))
\* course.whatYoullLearn ? JSON.parse(course.whatYoullLearn) : null
AdminParseLearn(v) == IF Truthy(v) THEN JSONparse(v) ELSE Parsed(Undef)

\* x ? JSON.parse(x) : []   (create's response and the public listing)
ParseOrEmpty(v) == IF Truthy(v) THEN JSONparse(v) ELSE Parsed(Arr(<<>>))

\* the parsers of listing h: "admin" (getAllCourses) or "public"
ParseTags(h, v) == IF h = "admin" THEN AdminParseTags(v) ELSE ParseOrEmpty(v)
ParseLearn(h, v) == IF h = "admin" THEN AdminParseLearn(v) ELSE ParseOrEmpty(v)

\* courses.map(...): each row with its two fields parsed
MapParsed(cs, h) ==
  [i \in 1..Len(cs) |-> [cs[i] EXCEPT !.tags = ParseTags(h, @).val,
                                      !.whatYoullLearn = ParseLearn(h, @).val]]
\* no JSON.parse of the map throws
AllParse(cs, h) ==
  \A i \in 1..Len(cs) :
    ParseTags(h, cs[i].tags).ok /\ ParseLearn(h, cs[i].whatYoullLearn).ok

\* res.json(parsedCourses), or the catch block when a parse threw
SendList(r, rows, h) ==
  IF AllParse(rows, h)
  THEN [r EXCEPT !.sent = @ + 1, !.status = 200, !.list = MapParsed(rows, h)]
  ELSE ServerError(r)

\* the rows the authenticated listing reads: Course.findAll()
AdminListRows(category) == findAll

GetAllCourses ==
  /\ Current = "getAllCourses"
  /\ \E fault \in BOOLEAN :
       /\ req' = Handled(req, "getAllCourses", fault)
       /\ res' = IF fault THEN ServerError(res)
                 ELSE SendList(res, AdminListRows(req.category), "admin")
  /\ UNCHANGED <<now, admins, courses, nextId, supplied, localAdmins, issued,
               server, client, router, calls,
                 app, debounced, seed>>

\* the rows the listing of publicRoutes.js reads: Course.findAll()
PublicListRows(category) == findAll

PublicCourses ==
  /\ Current = "publicCourses"
  /\ \E fault \in BOOLEAN :
       /\ req' = Handled(req, "publicCourses", fault)
       /\ res' = IF fault THEN ServerError(res)
                 ELSE SendList(res, PublicListRows(req.category), "public")
  /\ UNCHANGED <<now, admins, courses, nextId, supplied, localAdmins, issued,
               server, client, router, calls,
                 app, debounced, seed>>

\* mutant: the path is stored as the upload wrote it
ReplaceBackslashes_Mut(txt) == txt

\* path.replace(/\\/g, '/')
ReplaceBackslashes(txt) == [i \in 1..Len(txt) |-> IF txt[i] = "\\" THEN "/" ELSE txt[i]]

ImagePath(file) == IF Truthy(file) THEN Str(ReplaceBackslashes(file.text)) ELSE Undef

\* a string is parsed (a text that does not parse becomes []), then an
\* array is serialized for storage
CoerceParse(v) ==
  IF Truthy(v) /\ v.t = "string"
  THEN (IF JSONparse(v).ok THEN JSONparse(v).val ELSE Arr(<<>>))
  ELSE v
CoerceArray(v) == IF IsArray(CoerceParse(v)) THEN JSONstringify(CoerceParse(v))
                  ELSE CoerceParse(v)

\* history: what the request supplied as tags and whatYoullLearn, kept per
\* course id for the round-trip property
ArrayInputs(b) == [tags |-> b.tags, whatYoullLearn |-> b.whatYoullLearn]

CourseData(r) ==
  [id |-> nextId, title |-> r.body.title, category |-> r.body.category,
   image |-> ImagePath(r.file), tags |-> CoerceArray(r.body.tags),
   whatYoullLearn |-> CoerceArray(r.body.whatYoullLearn)]

\* the course of a 201/200 response: tags and whatYoullLearn parsed back
SendCourse(r, s, m, c) ==
  IF ParseOrEmpty(c.tags).ok /\ ParseOrEmpty(c.whatYoullLearn).ok
  THEN [r EXCEPT !.sent = @ + 1, !.status = s, !.message = m,
                 !.course = [c EXCEPT !.tags = ParseOrEmpty(@).val,
                                      !.whatYoullLearn = ParseOrEmpty(@).val]]
  ELSE ServerError(r)

CreateCourse ==
  /\ Current = "createCourse"
  /\ \E fault \in BOOLEAN :
       /\ req' = Handled(req, "createCourse", fault)
       /\ IF fault
          THEN /\ res' = ServerError(res)
               /\ UNCHANGED <<courses, nextId, supplied>>
          ELSE /\ courses' = Append(courses, CourseData(req))
               /\ nextId' = nextId + 1
               /\ supplied' = Append(supplied, ArrayInputs(req.body))
               /\ res' = SendCourse(res, 201, "Course created successfully",
                                    CourseData(req))
  /\ UNCHANGED <<now, admins, localAdmins, issued,
               server, client, router, calls,
                 app, debounced, seed>>

NotFound(r) == Json(r, 404, "Course not found")

\* Course.findByPk(id)
Exists(id) == id \in Ids(courses)
Index(id) == CHOOSE i \in 1..Len(courses) : courses[i].id = id

\* mutant: the record is replaced by the body, absent fields included
Supplied_Mut(v, old) == v

\* a supplied field replaces the stored one, an absent field keeps it
Supplied(v, old) == IF v.t = "undefined" THEN old ELSE v

Updated(c, r) ==
  [id |-> c.id,
   title |-> Supplied(r.body.title, c.title),
   category |-> Supplied(r.body.category, c.category),
   image |-> Supplied(ImagePath(r.file), c.image),
   tags |-> Supplied(CoerceArray(r.body.tags), c.tags),
   whatYoullLearn |-> Supplied(CoerceArray(r.body.whatYoullLearn), c.whatYoullLearn)]

UpdateCourse ==
  /\ Current = "updateCourse"
  /\ \E fault \in BOOLEAN :
       /\ req' = Handled(req, "updateCourse", fault)
       /\ IF fault
          THEN /\ res' = ServerError(res)
               /\ UNCHANGED <<courses, supplied>>
          ELSE IF ~Exists(req.id)
          THEN /\ res' = NotFound(res)
               /\ UNCHANGED <<courses, supplied>>
          ELSE /\ courses' = [courses EXCEPT ![Index(req.id)] = Updated(@, req)]
               /\ supplied' = [supplied EXCEPT ![req.id] =
                                 [tags |-> Supplied(req.body.tags, @.tags),
                                  whatYoullLearn |-> Supplied(req.body.whatYoullLearn,
                                                              @.whatYoullLearn)]]
               /\ res' = SendCourse(res, 200, "Course updated successfully",
                                    Updated(courses[Index(req.id)], req))
  /\ UNCHANGED <<now, admins, nextId, localAdmins, issued,
               server, client, router, calls,
                 app, debounced, seed>>

\* mutant: a destroy without its where clause empties the table
Destroy_Mut(id) == SelectSeq(courses, LAMBDA c : FALSE)

\* course.destroy()
Destroy(id) == SelectSeq(courses, LAMBDA c : c.id # id)

DeleteCourse ==
  /\ Current = "deleteCourse"
  /\ \E fault \in BOOLEAN :
       /\ req' = Handled(req, "deleteCourse", fault)
       /\ IF fault
          THEN /\ res' = ServerError(res)
               /\ courses' = courses
          ELSE IF ~Exists(req.id)
          THEN /\ res' = NotFound(res)
               /\ courses' = courses
          ELSE /\ courses' = Destroy(req.id)
               /\ res' = Json(res, 200, "Course deleted successfully")
  /\ UNCHANGED <<now, admins, nextId, supplied, localAdmins, issued,
               server, client, router, calls,
                 app, debounced, seed>>

(* ---------------------------------------------------------------------- *)
(* Local admins                                                            *)
(* ---------------------------------------------------------------------- *)
\* mutant: createLocalAdmin writing through the Admin model
LocalAdminModel_Mut == "Admin"
\* const {localAdmin} = require('../models'): the model createLocalAdmin uses
LocalAdminModel == "localAdmin"

\* Model.create(row): the row is added to that model's table and to no other
Created(model, table, rows, row) == IF model = table THEN rows \cup {row} ELSE rows

MissingField(b) == b.name = "" \/ b.email = "" \/ b.password = "" \/ b.role = ""

CreateLocalAdmin ==
  /\ Current = "createLocalAdmin"
  /\ \E fault \in BOOLEAN :
       /\ MissingField(req.body) => ~fault
       /\ req' = Handled(req, "createLocalAdmin", fault)
       /\ IF MissingField(req.body)
          THEN /\ res' = Json(res, 400, "All feilds are required")
               /\ UNCHANGED <<localAdmins, admins>>
          ELSE IF fault
          THEN /\ res' = Json(res, 500, "Server Error")
               /\ UNCHANGED <<localAdmins, admins>>
          ELSE IF \E a \in localAdmins : a.email = req.body.email
          THEN /\ res' = Json(res, 409, "User already exisit   ")
               /\ UNCHANGED <<localAdmins, admins>>
          ELSE LET row == [id |-> Cardinality(localAdmins) + 1,
                           name |-> req.body.name,
                           email |-> req.body.email,
                           password |-> bcryptHash(req.body.password),
                           role |-> req.body.role]
               IN /\ localAdmins' = Created(LocalAdminModel, "localAdmin",
                                            localAdmins, row)
                  /\ admins' = Created(LocalAdminModel, "Admin", admins, row)
                  /\ res' = Json(res, 201, "Local Admin User created succesfully")
  /\ UNCHANGED <<now, courses, nextId, supplied, issued,
               server, client, router, calls,
                 app, debounced, seed>>

(* ---------------------------------------------------------------------- *)
(* Concurrent createLocalAdmin calls: each call suspends at its awaits,    *)
(* so the calls of several requests interleave between findOne and create  *)
(* ---------------------------------------------------------------------- *)
Slots == 1..MaxClients

LocalAdminBody(name, email, password, role) ==
  [name |-> name, email |-> email, password |-> password, role |-> role]

NoCall == [pc |-> "idle", body |-> LocalAdminBody("", "", "", ""), status |-> 0,
           sent |-> [none |-> TRUE]]

\* unique: whether the localAdmin table rejects a second row with the same
\* email; the table's definition is not among the sources, so both are possible
NoCalls == [unique |-> FALSE, slot |-> [i \in Slots |-> NoCall]]

\* res.status(s).json(body), ending the call
Answer(c, s, body) == [c EXCEPT !.pc = "done", !.status = s, !.sent = body]

EmailTaken(email) == \E a \in localAdmins : a.email = email

\* mutant: the response also carries the commented-out password field
CreatedResponse_Mut(row) ==
  [message |-> "Local Admin User created succesfully",
   LocalAdmin |-> [id |-> row.id, email |-> row.email, role |-> row.role,
                   password |-> row.password]]

\* the body of the 201 response
CreatedResponse(row) ==
  [message |-> "Local Admin User created succesfully",
   LocalAdmin |-> [id |-> row.id, email |-> row.email, role |-> row.role]]

\* the requests that can be in flight together
ConcurrentBodies ==
  {LocalAdminBody("n", e, "pw", "editor") : e \in {"e@x", "f@x"}}
    \cup {LocalAdminBody("", "e@x", "pw", "editor"),
          LocalAdminBody("n", "", "pw", "editor"),
          LocalAdminBody("n", "e@x", "", "editor"),
          LocalAdminBody("n", "e@x", "pw", "")}

\* a request passes the gate and enters createLocalAdmin
CallArrives(i) ==
  /\ calls.slot[i].pc = "idle"
  /\ \E b \in ConcurrentBodies :
       calls' = [calls EXCEPT !.slot[i] = [@ EXCEPT !.pc = "entered", !.body = b]]
  /\ UNCHANGED <<now, admins, courses, nextId, supplied, localAdmins, issued,
                 req, res, server, client, router, app, debounced, seed>>

\* the field check and await localAdmin.findOne({where: {email}})
CallChecks(i) ==
  /\ calls.slot[i].pc = "entered"
  /\ LET c == calls.slot[i]
     IN \E fault \in BOOLEAN :
          /\ MissingField(c.body) => ~fault
          /\ calls' = [calls EXCEPT !.slot[i] =
               IF MissingField(c.body)
               THEN Answer(c, 400, [message |-> "All feilds are required"])
               ELSE IF fault
               THEN Answer(c, 500, [message |-> "Server Error"])
               ELSE IF EmailTaken(c.body.email)
               THEN Answer(c, 409, [message |-> "User already exisit   "])
               ELSE [c EXCEPT !.pc = "creating"]]
  /\ UNCHANGED <<now, admins, courses, nextId, supplied, localAdmins, issued,
                 req, res, server, client, router, app, debounced, seed>>

\* await bcrypt.hash(...), await localAdmin.create(...) and the 201 response;
\* a table with a unique email rejects the create of a taken email
CallCreates(i) ==
  /\ calls.slot[i].pc = "creating"
  /\ LET c == calls.slot[i]
         row == [id |-> Cardinality(localAdmins) + 1, name |-> c.body.name,
                 email |-> c.body.email,
                 password |-> bcryptHash(c.body.password), role |-> c.body.role]
     IN \E fault \in BOOLEAN :
          IF fault \/ (calls.unique /\ EmailTaken(c.body.email))
          THEN /\ calls' = [calls EXCEPT !.slot[i] =
                              Answer(c, 500, [message |-> "Server Error"])]
               /\ UNCHANGED <<localAdmins, admins>>
          ELSE /\ calls' = [calls EXCEPT !.slot[i] =
                              Answer(c, 201, CreatedResponse(row))]
               /\ localAdmins' = Created(LocalAdminModel, "localAdmin",
                                         localAdmins, row)
               /\ admins' = Created(LocalAdminModel, "Admin", admins, row)
  /\ UNCHANGED <<now, courses, nextId, supplied, issued,
                 req, res, server, client, router, app, debounced, seed>>

(* ---------------------------------------------------------------------- *)
(* Process startup (server.js)                                             *)
(* ---------------------------------------------------------------------- *)
\* sequelize.authenticate() settles: the store answered, or it could not be
\* reached
Authenticate ==
  /\ server = "starting"
  /\ \E reachable \in BOOLEAN :
       server' = IF reachable THEN "resolved" ELSE "rejected"
  /\ UNCHANGED <<now, admins, courses, nextId, supplied, localAdmins, issued,
                 req, res, client, router, calls,
                 app, debounced, seed>>

\* .then(() => { ...; app.listen(PORT, ...) })
OnResolved ==
  /\ server = "resolved"
  /\ server' = "listening"
  /\ UNCHANGED <<now, admins, courses, nextId, supplied, localAdmins, issued,
                 req, res, client, router, calls,
                 app, debounced, seed>>

\* mutant: the catch handler starts the server all the same
AfterCatch_Mut == "listening"
\* .catch(err => console.error(...)): the error is logged, nothing is started
AfterCatch == "logged"

OnRejected ==
  /\ server = "rejected"
  /\ server' = AfterCatch
  /\ UNCHANGED <<now, admins, courses, nextId, supplied, localAdmins, issued,
                 req, res, client, router, calls,
                 app, debounced, seed>>

\* after the catch handler nothing is pending (no listener, no connection):
\* the process ends
ProcessExit ==
  /\ server = "logged"
  /\ server' = "exited"
  /\ UNCHANGED <<now, admins, courses, nextId, supplied, localAdmins, issued,
                 req, res, client, router, calls,
                 app, debounced, seed>>

(* ---------------------------------------------------------------------- *)
(* Frontend session (AuthManager): the token kept in localStorage          *)
(* ---------------------------------------------------------------------- *)
\* token and username are the localStorage items adminToken and
\* adminUsername (NoToken and "" when getItem gives null); dropped is
\* history: the tokens logout has removed from localStorage, and when
NullUser == [username |-> "", role |-> "null", token |-> NoToken]
CurrentUser(username, token) ==
  [username |-> username, role |-> "admin", token |-> token]

NoSession == [token |-> NoToken, username |-> "", currentUser |-> NullUser,
              dropped |-> {}]

\* mutant: a login that stores the token and leaves currentUser as it was
LoggedIn_Mut(c, data) ==
  [c EXCEPT !.token = data.token, !.username = data.username]

\* AuthManager.login after a response with res.ok: the two setItem calls and
\* this.currentUser = {username, role: 'admin', token}
LoggedIn(c, data) ==
  [c EXCEPT !.token = data.token, !.username = data.username,
            !.currentUser = CurrentUser(data.username, data.token)]

\* AuthManager.logout: the two removeItem calls and this.currentUser = null
LoggedOut(c, at) ==
  [token |-> NoToken, username |-> "", currentUser |-> NullUser,
   dropped |-> c.dropped \cup {[token |-> c.token, at |-> at]}]

\* the constructor: this.currentUser = null, then checkAuthStatus
checkAuthStatus(c) ==
  IF c.token # NoToken /\ c.username # ""
  THEN [c EXCEPT !.currentUser = CurrentUser(c.username, c.token)]
  ELSE [c EXCEPT !.currentUser = NullUser]

\* AuthManager.isAuthenticated: !!localStorage.getItem('adminToken')
isAuthenticated == client.token # NoToken

\* AuthManager.login after the fetch: if (res.ok) store data.token, data.username
StoreSession ==
  /\ req.pc = "done"
  /\ req.route = "POST /api/admin/login"
  /\ res.status = 200
  /\ client.token # res.token
  /\ client' = LoggedIn(client, res)
  /\ UNCHANGED <<now, admins, courses, nextId, supplied, localAdmins, issued,
                 req, res, server, router, calls,
                 app, debounced, seed>>

\* AuthManager.logout: the two localStorage items are removed; no request is
\* sent to the server
Logout ==
  /\ client.token # NoToken
  /\ client' = LoggedOut(client, now)
  /\ UNCHANGED <<now, admins, courses, nextId, supplied, localAdmins, issued,
                 req, res, server, router, calls,
                 app, debounced, seed>>

(* ---------------------------------------------------------------------- *)
(* Frontend router (Router): hashes are sequences of "/" and path words    *)
(* ---------------------------------------------------------------------- *)
Root == <<"/">>
CoursePrefix == <<"/", "course", "/">>
EditPrefix == <<"/", "admin", "/", "courses", "/", "edit", "/">>

\* mutant: a route table without the home page
Routes_Mut ==
  {<<(<<"/", "courses">>), "showCoursesPage">>,
   <<(<<"/", "admin">>), "showAdminDashboard">>,
   <<(<<"/", "admin", "/", "login">>), "showAdminLogin">>,
   <<(<<"/", "admin", "/", "courses", "/", "add">>), "showAddCourse">>}

\* App.setupRoutes: the registered paths and their handlers
Routes ==
  {<<Root, "showHomePage">>,
   <<(<<"/", "courses">>), "showCoursesPage">>,
   <<(<<"/", "admin">>), "showAdminDashboard">>,
   <<(<<"/", "admin", "/", "login">>), "showAdminLogin">>,
   <<(<<"/", "admin", "/", "courses", "/", "add">>), "showAddCourse">>}

Registered == {r[1] : r \in Routes}

\* this.routes.get(hash)
RoutesGet(hash) ==
  IF hash \in Registered THEN (CHOOSE r \in Routes : r[1] = hash)[2]
  ELSE "undefined"

\* String.prototype.startsWith
StartsWith(h, p) == Len(h) >= Len(p) /\ SubSeq(h, 1, Len(p)) = p

\* p occurs in h at position i
OccursAt(h, p, i) == i + Len(p) - 1 <= Len(h) /\ SubSeq(h, i, i + Len(p) - 1) = p

\* mutant: the hash is handed on whole
ReplaceFirst_Mut(h, p) == h

\* h.replace(p, ''): the first occurrence of p is removed
ReplaceFirst(h, p) ==
  IF \A i \in 1..Len(h) : ~OccursAt(h, p, i) THEN h
  ELSE LET i == CHOOSE k \in 1..Len(h) :
                  OccursAt(h, p, k) /\ \A j \in 1..(k - 1) : ~OccursAt(h, p, j)
       IN SubSeq(h, 1, i - 1) \o SubSeq(h, i + Len(p), Len(h))

NoRoute == <<"null">>
NoHandler == [handler |-> "undefined", arg |-> <<>>]

\* window.location.hash.slice(1) || '/'
CurrentHash(h) == IF h = <<>> THEN Root ELSE h

\* the routeHandler handleRoute settles on for a hash
RouteHandler(hash) ==
  IF RoutesGet(hash) # "undefined"
  THEN [handler |-> RoutesGet(hash), arg |-> <<>>]
  ELSE IF StartsWith(hash, CoursePrefix)
  THEN [handler |-> "showCourseDetail", arg |-> ReplaceFirst(hash, CoursePrefix)]
  ELSE IF StartsWith(hash, EditPrefix)
  THEN [handler |-> "showEditCourse", arg |-> ReplaceFirst(hash, EditPrefix)]
  ELSE NoHandler

\* the router of a page being loaded at hash h: the load event is pending.
\* handled and invoked are history: the hash the last handleRoute read and
\* the handlers it invoked
Loaded(h) == [hash |-> h, pending |-> TRUE, currentRoute |-> NoRoute,
              handled |-> NoRoute, invoked |-> <<>>]
NoRouter == Loaded(<<>>)

\* the words a slug or an id is made of
SlugParts == {"js", "/"}
Slugs == SeqsUpTo(SlugParts, MaxLen)

\* the hashes a visitor can open
Hashes ==
  Registered
    \cup {<<>>, <<"/", "about">>, <<"/", "course">>, <<"/", "courses", "/", "js">>,
          CoursePrefix \o <<"js">> \o CoursePrefix \o <<"js">>}
    \cup {CoursePrefix \o x : x \in Slugs}
    \cup {EditPrefix \o x : x \in Slugs}

\* the visitor follows a link or edits the address: window.location.hash = path
\* (a hashchange event fires when the hash changes)
Navigate ==
  /\ ~router.pending
  /\ \E path \in Hashes :
       /\ path # router.hash
       /\ router' = [router EXCEPT !.hash = path, !.pending = TRUE]
  /\ UNCHANGED <<now, admins, courses, nextId, supplied, localAdmins, issued,
                 req, res, server, client, calls,
                 app, debounced, seed>>

\* Router.handleRoute on router r, up to the handler's own work
Routed(r) ==
  LET hash == CurrentHash(r.hash)
      routeHandler == RouteHandler(hash)
  IN IF routeHandler # NoHandler
     THEN [r EXCEPT !.pending = FALSE, !.currentRoute = hash,
                    !.handled = hash, !.invoked = <<routeHandler>>]
     ELSE \* this.navigate('/')
          [r EXCEPT !.hash = Root, !.pending = TRUE,
                    !.handled = hash, !.invoked = <<>>]

\* Router.handleRoute, run for the load event and for every hashchange
HandleRoute ==
  /\ router.pending
  /\ router' = Routed(router)
  /\ UNCHANGED <<now, admins, courses, nextId, supplied, localAdmins, issued,
                 req, res, server, client, calls,
                 app, debounced, seed>>

(* ---------------------------------------------------------------------- *)
(* Clients: the requests that can arrive                                   *)
(* ---------------------------------------------------------------------- *)
\* a token nobody issued: the seeded admin's identity under another key
Forged == [adminId |-> 1, username |-> "pown", iat |-> 0, exp |-> MaxTime + 2,
           sig |-> "attacker"]

\* the ways a client writes a token into the Authorization header
BearerHdr(t) == Hdr(<<Bearer, Sp, J(t)>>)
BareHdr(t) == Hdr(<<J(t)>>)
TwoSpaceHdr(t) == Hdr(<<Bearer, Sp, Sp, J(t)>>)
GluedHdr(t) == Hdr(<<Bearer, Sp, Bearer, J(t)>>)

Headers ==
  {NoHeader, Hdr(<<>>), Hdr(<<Bearer>>), Hdr(<<Bearer, Sp>>)}
    \cup {BearerHdr(t) : t \in issued \cup {Forged}}
    \cup {BareHdr(t) : t \in issued}
    \cup {TwoSpaceHdr(t) : t \in issued}
    \cup {GluedHdr(t) : t \in issued}

\* the headers of a logged-in frontend
ValidHeaders == {BearerHdr(t) : t \in issued}

Template(route, header, body, category, id, filePart) ==
  [Idle EXCEPT !.pc = "run", !.route = route, !.idx = 1, !.header = header,
               !.body = body, !.category = category, !.id = id,
               !.filePart = filePart]

Usernames == {"pown", "root"}
Passwords == {"1234", "wrong"}

LoginRequests ==
  {Template("POST /api/admin/login", NoHeader, [username |-> u, password |-> p],
            Undef, 0, Undef) : u \in Usernames, p \in Passwords}

CourseBody(title, category, tags, learn) ==
  [title |-> title, category |-> category, tags |-> tags, whatYoullLearn |-> learn,
   image |-> Undef]

\* the same body with an image field of its own
WithImage(b, img) == [b EXCEPT !.image = img]

Categories == {CatA, CatB}

CourseIds == 1..(MaxCourses + 1)

LocalAdminBodies ==
  {[name |-> "n", email |-> "e@x", password |-> "pw", role |-> r] :
     r \in {"", "editor"}}

\* the course requests with headers H, listing filters C, course ids I, and
\* <<body, uploaded file>> pairs B of POST and U of PUT
CourseRequests(H, C, B, U, I) ==
  {Template("GET /api/courses", h, NoBody, c, 0, Undef) : h \in H, c \in C}
  \cup {Template("POST /api/courses", h, b[1], Undef, 0, b[2]) : h \in H, b \in B}
  \cup {Template("PUT /api/courses/:id", h, b[1], Undef, i, b[2]) :
          h \in H, b \in U, i \in I}
  \cup {Template("DELETE /api/courses/:id", h, NoBody, Undef, i, Undef) :
          h \in H, i \in I}

LocalAdminRequests(H) ==
  {Template("POST /api/localadmins", h, b, Undef, 0, Undef) :
     h \in H, b \in LocalAdminBodies}

PublicRequests(C) ==
  {Template("GET /public/courses", NoHeader, NoBody, c, 0, Undef) : c \in C}

PlainBody == CourseBody(Intro, CatA, Undef, Undef)

\* every way of presenting a token, on every admin route
Requests ==
  LoginRequests
    \cup CourseRequests(Headers, {Undef}, {<<PlainBody, Undef>>},
                        {<<PlainBody, Undef>>}, {1})
    \cup LocalAdminRequests(Headers)
    \cup PublicRequests({Undef})

\* a logged-in admin working on the catalog, and anonymous browsing
ValidLogin ==
  {Template("POST /api/admin/login", NoHeader,
            [username |-> "pown", password |-> "1234"], Undef, 0, Undef)}

TagsAB == Arr(<<"a", "b">>)
TextBA == JSONstringify(Arr(<<"b", "a">>))
File1 == Str(<<"uploads", "\\", "1.png">>)
File2 == Str(<<"uploads", "\\", "2.png">>)

CreateInputs == {<<PlainBody, Undef>>,
                 <<CourseBody(Intro, CatB, TagsAB, TextBA), File1>>}
UpdateInputs == {<<CourseBody(Str(<<"New">>), CatB, Undef, Undef), Undef>>,
                 <<CourseBody(Undef, Undef, Arr(<<"b">>), JSONstringify(Arr(<<>>))),
                   File2>>}

CatalogRequests ==
  ValidLogin
    \cup CourseRequests(ValidHeaders, Categories \cup {Undef}, CreateInputs,
                        UpdateInputs, CourseIds)
    \cup PublicRequests({Undef, CatA})

\* what a client can send as tags or whatYoullLearn: nothing, an array, the
\* JSON text of an array, the JSON text of a number, of a string and of an
\* object, and a text that is no JSON
TextOfNumber == Str(<<"5">>)
TextOfString == Str(StringifyStr("a"))
TextOfObject == Str(<<"{", "}">>)
NoJson == Str(<<"a">>)
FieldInputs == {Undef, Arr(<<"a">>), TextBA, TextOfNumber, TextOfString,
                TextOfObject, NoJson}

BodyImage == Str(<<"body.png">>)

\* creates with every kind of tags/whatYoullLearn input, with and without a
\* title, an uploaded file and an image field in the body
InputVariants ==
  {<<CourseBody(Intro, CatA, v, v), Undef>> : v \in FieldInputs}
    \cup {<<CourseBody(Intro, CatA, Arr(<<"a">>), Undef), Undef>>,
          <<CourseBody(Undef, CatA, Undef, Undef), Undef>>,
          <<WithImage(PlainBody, BodyImage), Undef>>,
          <<WithImage(PlainBody, BodyImage), File1>>}

InputRequests ==
  ValidLogin
    \cup {Template("GET /api/courses", h, NoBody, Undef, 0, Undef) : h \in ValidHeaders}
    \cup {Template("POST /api/courses", h, b[1], Undef, 0, b[2]) :
            h \in ValidHeaders, b \in InputVariants}
    \cup PublicRequests({Undef})

\* the bounds on the tables: no more than MaxCourses rows are ever created
\* and no more than MaxTokens tokens issued
Admissible(r) ==
  /\ r.route = "POST /api/courses" => nextId <= MaxCourses
  /\ r.route = "POST /api/admin/login" => Cardinality(issued) < MaxTokens

Receive(R) ==
  /\ server = "listening"
  /\ req.pc \in {"idle", "done"}
  /\ \E r \in R :
       /\ Admissible(r)
       /\ req' = r
  /\ res' = NoRes
  /\ UNCHANGED <<now, admins, courses, nextId, supplied, localAdmins, issued,
               server, client, router, calls,
                 app, debounced, seed>>

\* an admin session: logins, and course requests carrying any token login
\* has issued, whether the frontend still holds it or not
SessionRequests ==
  ValidLogin
    \cup CourseRequests(ValidHeaders, {Undef}, {<<PlainBody, Undef>>}, {}, {})

\* a session sees one login more than MaxTokens
SessionTokens == MaxTokens + 1

ReceiveSession ==
  /\ server = "listening"
  /\ req.pc \in {"idle", "done"}
  /\ \E r \in SessionRequests :
       /\ r.route = "POST /api/courses" => nextId <= MaxCourses
       /\ r.route = "POST /api/admin/login" => Cardinality(issued) < SessionTokens
       /\ req' = r
  /\ res' = NoRes
  /\ UNCHANGED <<now, admins, courses, nextId, supplied, localAdmins, issued,
                 server, client, router, calls,
                 app, debounced, seed>>

(* ---------------------------------------------------------------------- *)
(* Admin seed script (createAdminUser in localAdminController.js), run     *)
(* from the command line, one run after the other                          *)
(* ---------------------------------------------------------------------- *)
\* pc: where the run is; code: its exit code; runs counts the runs started
NoSeed == [pc |-> "idle", username |-> "", password |-> "", code |-> 0,
           runs |-> 0]

\* mutant: a seed that never finds the admin it looks for
existingAdmin_Mut(username) == {}

\* Admin.findOne({where: {username}})
existingAdmin(username) == {a \in admins : a.username = username}

\* process.exit(code)
Exit(s, code) == [s EXCEPT !.pc = "exited", !.code = code]

\* node runs the script: createAdminUser(username, password) is called
RunSeed ==
  /\ seed.pc \in {"idle", "exited"}
  /\ seed.runs < MaxRuns
  /\ \E u \in Usernames, p \in Passwords :
       seed' = [pc |-> "findOne", username |-> u, password |-> p, code |-> 0,
                runs |-> seed.runs + 1]
  /\ UNCHANGED <<now, admins, courses, nextId, supplied, localAdmins, issued,
                 req, res, server, client, router, calls, app, debounced>>

\* await Admin.findOne: an admin of that name ends the run with exit code 0;
\* a store that fails ends it in the catch block with exit code 1
FindExisting ==
  /\ seed.pc = "findOne"
  /\ \E fault \in BOOLEAN :
       seed' = IF fault THEN Exit(seed, 1)
               ELSE IF existingAdmin(seed.username) # {} THEN Exit(seed, 0)
               ELSE [seed EXCEPT !.pc = "create"]
  /\ UNCHANGED <<now, admins, courses, nextId, supplied, localAdmins, issued,
                 req, res, server, client, router, calls, app, debounced>>

\* await bcrypt.hash(password, 10); await Admin.create({username, password:
\* hashedPassword}); process.exit(0)
CreateAdmin ==
  /\ seed.pc = "create"
  /\ \E fault \in BOOLEAN :
       IF fault
       THEN /\ seed' = Exit(seed, 1)
            /\ admins' = admins
       ELSE /\ admins' = admins \cup
                 {[id |-> Cardinality(admins) + 1, username |-> seed.username,
                   password |-> bcryptHash(seed.password)]}
            /\ seed' = Exit(seed, 0)
  /\ UNCHANGED <<now, courses, nextId, supplied, localAdmins, issued,
                 req, res, server, client, router, calls, app, debounced>>

(* ---------------------------------------------------------------------- *)
(* Utils.debounce(func, wait): one debounced function, its closure         *)
(* variable timeout and the timers it has set                              *)
(* ---------------------------------------------------------------------- *)
\* wait: the 500 ms of setupHomePageEvents, on the scale of MaxTime
Wait == 2

\* what the debounced function is called with
Args == {"a", "b"}

\* timeout: the id kept by the closure (0: undefined); timers: the timers set
\* and neither cleared nor fired; ids: the timer ids handed out. History:
\* calledAt, calledWith: the most recent call; sinceCall: the runs of func
\* since it; ranWith: the arguments of the last run; cancelled: the timers
\* cleared before they fired
NoDebounce == [timeout |-> 0, timers |-> {}, ids |-> 0, calledAt |-> 0,
               calledWith |-> "", sinceCall |-> 0, ranWith |-> "",
               cancelled |-> 0]

\* mutant: a clearTimeout that cancels nothing
clearTimeout_Mut(timers, id) == timers

\* clearTimeout(id): the timer with that id, if still set, is cancelled
clearTimeout(timers, id) == {t \in timers : t.id # id}

\* setTimeout(later, wait) at time at, where later holds args
setTimeout(timers, id, at, args) ==
  timers \cup {[id |-> id, due |-> at + Wait, args |-> args]}

\* the debounced function is called: clearTimeout(timeout);
\* timeout = setTimeout(later, wait)
executedFunction ==
  /\ debounced.ids < MaxCalls
  /\ now <= MaxTime
  /\ \E args \in Args :
       LET id == debounced.ids + 1
       IN debounced' =
            [debounced EXCEPT
               !.timers = setTimeout(clearTimeout(@, debounced.timeout), id, now, args),
               !.timeout = id, !.ids = id, !.calledAt = now,
               !.calledWith = args, !.sinceCall = 0,
               !.cancelled = @ + Cardinality(debounced.timers)
                               - Cardinality(clearTimeout(debounced.timers,
                                                          debounced.timeout))]
  /\ UNCHANGED <<now, admins, courses, nextId, supplied, localAdmins, issued,
                 req, res, server, client, router, calls, app, seed>>

\* time passes, until the timer of a last call at MaxTime is due
Elapse ==
  /\ now < MaxTime + Wait
  /\ now' = now + 1
  /\ UNCHANGED <<admins, courses, nextId, supplied, localAdmins, issued,
                 req, res, server, client, router, calls, app, debounced, seed>>

\* a timer fires, at its due time or later: clearTimeout(timeout);
\* func(...args)
later ==
  /\ \E t \in debounced.timers :
       /\ now >= t.due
       /\ debounced' =
            [debounced EXCEPT
               !.timers = clearTimeout(@ \ {t}, debounced.timeout),
               !.sinceCall = IF @ < 2 THEN @ + 1 ELSE @,
               !.ranWith = t.args]
  /\ UNCHANGED <<now, admins, courses, nextId, supplied, localAdmins, issued,
                 req, res, server, client, router, calls, app, seed>>

(* ---------------------------------------------------------------------- *)
(* Frontend App (unnamed/part_003): the rendered page, the loading         *)
(* spinner, the flows awaiting a fetch or a timer, and the requests the    *)
(* App sends. One fetch is outstanding at a time.                          *)
(* ---------------------------------------------------------------------- *)
AdminPath == <<"/", "admin">>
LoginPath == <<"/", "admin", "/", "login">>

\* the async flows that show the spinner and then await
Flows == {"init", "login", "loadAdminDashboard", "showEditCourse", "deleteCourse"}

\* page: the template in main-content; loading: the spinner is shown;
\* rows: the course ids of the dashboard table; editing: the id showEditCourse
\* was called with; loginResult: how the last authManager.login call ended
\* ("true": success toast, "false": the form's error line is shown, "threw":
\* failure toast; "none" once the form is rendered or submitted again). redirects is history: the guard redirects since the visitor
\* or the session last changed the hash
NoApp == [page |-> "none", loading |-> FALSE,
          flow |-> [f \in Flows |-> "idle"], rows |-> {}, editing |-> 0,
          loginResult |-> "none", redirects |-> 0]

\* Utils.showLoading / Utils.hideLoading: the 'hidden' class of #loading
showLoading(a) == [a EXCEPT !.loading = TRUE]
hideLoading(a) == [a EXCEPT !.loading = FALSE]

Await(a, f) == [a EXCEPT !.flow[f] = "awaiting"]
Settle(a, f) == [a EXCEPT !.flow[f] = "idle"]

\* new App(): the constructor and init() up to its await of the 1000 ms timer
Constructed == Await(showLoading(NoApp), "init")

\* Router.navigate(path): window.location.hash = path; a hashchange event
\* follows when the hash changed
navigate(r, path) ==
  [r EXCEPT !.hash = path, !.pending = (@ \/ path # r.hash)]

\* a redirect by a guard, and any other change of the hash
Redirected(a) ==
  [a EXCEPT !.redirects = IF @ < 2 THEN @ + 1 ELSE @]
Settled(a) == [a EXCEPT !.redirects = 0]

\* no fetch of the App is outstanding
FetchFree ==
  /\ req.pc \in {"idle", "done"}
  /\ \A f \in Flows \ {"init"} : app.flow[f] = "idle"

\* Response.ok
Ok(r) == r.status >= 200 /\ r.status <= 299

\* `Bearer ${token}` with the token parameter of a CourseManager call: a
\* parameter the caller left out is undefined and prints as "undefined"
UndefinedWord == [c |-> "undefined", tok |-> NoToken]
NoArgument == [given |-> FALSE, tok |-> NoToken]
Interpolate(arg) == IF arg.given THEN J(arg.tok) ELSE UndefinedWord
Authorization(arg) == Hdr(<<Bearer, Sp, Interpolate(arg)>>)

\* CourseManager: the requests its methods hand to fetch
getAllCourses == Template("GET /public/courses", NoHeader, NoBody, Undef, 0, Undef)
addCourse(courseData, token) ==
  Template("POST /api/courses", Authorization(token), courseData, Undef, 0, Undef)
updateCourse(id, courseData, token) ==
  Template("PUT /api/courses/:id", Authorization(token), courseData, Undef, id, Undef)
deleteCourse(id, token) ==
  Template("DELETE /api/courses/:id", Authorization(token), NoBody, Undef, id, Undef)

\* AuthManager.login: the request it hands to fetch
login(username, password) ==
  Template("POST /api/admin/login", NoHeader,
           [username |-> username, password |-> password], Undef, 0, Undef)

\* App.handleCourseFormSubmit(course): updateCourse(course.id, formData) when
\* a course is edited (course # 0), addCourse(formData) otherwise; neither
\* call passes a token
handleCourseFormSubmit(course, formData) ==
  IF course # 0 THEN updateCourse(course, formData, NoArgument)
  ELSE addCourse(formData, NoArgument)

\* Number(id) of the text after '/admin/courses/edit/': 0 stands for NaN
Number(text) ==
  IF text = <<"1">> THEN 1 ELSE IF text = <<"2">> THEN 2 ELSE 0

\* the hashes the App's links and buttons lead to, and two typed by hand
AppLinks ==
  Registered
    \cup {EditPrefix \o <<"1">>, EditPrefix \o <<"js">>, CoursePrefix \o <<"js">>,
          <<"/", "about">>}

\* a catalog row as the dashboard needs it: students is a number or null
Listed(id, students) ==
  [id |-> id, title |-> Intro, category |-> CatA, image |-> Undef,
   tags |-> Undef, whatYoullLearn |-> Undef, students |-> students]

\* the stores the App is opened against
Catalogs == {<<>>, <<Listed(1, Num("5"))>>, <<Listed(1, Undef)>>}

\* the rows courses.forEach appends: createAdminTableRow throws on the first
\* course without students (Utils.formatNumber(course.students) calls
\* toLocaleString on it), which ends the loop
RowsOf(list) ==
  {list[i].id : i \in {k \in 1..Len(list) :
                         \A j \in 1..k : list[j].students # Undef}}

\* the visitor follows a link or types a hash
FollowLink ==
  /\ ~router.pending
  /\ \E path \in AppLinks :
       /\ path # router.hash
       /\ router' = navigate(router, path)
  /\ app' = Settled(app)
  /\ UNCHANGED <<now, admins, courses, nextId, supplied, localAdmins, issued,
                 req, res, server, client, calls, debounced, seed>>

\* the 1000 ms timer of init() fires: Utils.hideLoading()
InitTimer ==
  /\ app.flow["init"] = "awaiting"
  /\ app' = Settle(hideLoading(app), "init")
  /\ UNCHANGED <<now, admins, courses, nextId, supplied, localAdmins, issued,
                 req, res, server, client, router, calls, debounced, seed>>

\* the page is loaded again: new App() over the same localStorage and hash
Reload ==
  /\ app' = Constructed
  /\ router' = Loaded(router.hash)
  /\ client' = checkAuthStatus(client)
  /\ UNCHANGED <<now, admins, courses, nextId, supplied, localAdmins, issued,
                 req, res, server, calls, debounced, seed>>

\* showHomePage, showCoursesPage and showAddCourse (once past its guard, in
\* showCourseForm) call getCategories().forEach: getCategories is async, its
\* result a promise without forEach, and the TypeError ends the handler
\* before main-content is touched
ThrowsBeforeRender(r) ==
  /\ router' = r
  /\ app' = app
  /\ UNCHANGED <<req, res>>

\* showCourseDetail: showLoading, then courseManager.getCourseBySlug, which
\* CourseManager does not define: the TypeError is caught, finally hides
showCourseDetail(r) ==
  /\ router' = r
  /\ app' = hideLoading(showLoading(app))
  /\ UNCHANGED <<req, res>>

\* a guard's redirect: router.navigate(path); return
GuardRedirect(r, path) ==
  /\ router' = navigate(r, path)
  /\ app' = Redirected(app)
  /\ UNCHANGED <<req, res>>

showAdminLogin(r) ==
  IF isAuthenticated THEN GuardRedirect(r, AdminPath)
  ELSE /\ router' = r
       /\ app' = Settled([app EXCEPT !.page = "admin-login", !.rows = {},
                                       !.loginResult = "none"])
       /\ UNCHANGED <<req, res>>

\* loadAdminDashboard up to its await: the listing is fetched (by
\* getAllCourses and again by getStatistics; one fetch stands for both)
showAdminDashboard(r) ==
  IF ~isAuthenticated THEN GuardRedirect(r, LoginPath)
  ELSE /\ FetchFree
       /\ router' = r
       /\ app' = Await(showLoading(Settled([app EXCEPT !.page = "admin-dashboard",
                                                       !.rows = {}])),
                       "loadAdminDashboard")
       /\ req' = getAllCourses
       /\ res' = NoRes

\* mutant: the add form's handler without its guard
showAddCourse_Mut(r) == ThrowsBeforeRender(r)

showAddCourse(r) ==
  IF ~isAuthenticated THEN GuardRedirect(r, LoginPath)
  ELSE ThrowsBeforeRender(r)

showEditCourse(r, id) ==
  IF ~isAuthenticated THEN GuardRedirect(r, LoginPath)
  ELSE /\ FetchFree
       /\ router' = r
       /\ app' = Await(showLoading([app EXCEPT !.editing = Number(id)]),
                       "showEditCourse")
       /\ req' = getAllCourses
       /\ res' = NoRes

\* the load or hashchange event: Router.handleRoute and the handler it calls,
\* up to the handler's first await
Dispatch ==
  /\ router.pending
  /\ LET r == Routed(router)
     IN IF r.invoked = <<>> THEN ThrowsBeforeRender(r)
        ELSE LET h == r.invoked[1]
             IN CASE h.handler = "showAdminLogin" -> showAdminLogin(r)
                  [] h.handler = "showAdminDashboard" -> showAdminDashboard(r)
                  [] h.handler = "showAddCourse" -> showAddCourse(r)
                  [] h.handler = "showEditCourse" -> showEditCourse(r, h.arg)
                  [] h.handler = "showCourseDetail" -> showCourseDetail(r)
                  [] OTHER -> ThrowsBeforeRender(r)
  /\ UNCHANGED <<now, admins, courses, nextId, supplied, localAdmins, issued,
                 server, client, calls, debounced, seed>>

\* loadAdminDashboard after its await
DashboardLoaded ==
  /\ app.flow["loadAdminDashboard"] = "awaiting"
  /\ req.pc = "done"
  /\ \E rejected \in BOOLEAN :
       LET done == Settle(hideLoading(app), "loadAdminDashboard")
           \* deleteCourse awaiting this reload runs its own finally next
           ended == IF app.flow["deleteCourse"] = "awaiting"
                    THEN Settle(done, "deleteCourse") ELSE done
       IN \* with the listing in hand the table is emptied and filled row by
          \* row; without it, or on another page (getElementById gives null),
          \* the catch block runs and the table is left alone
          app' = [ended EXCEPT !.rows =
                    IF ~rejected /\ Ok(res) /\ app.page = "admin-dashboard"
                    THEN RowsOf(res.list) ELSE @]
  /\ UNCHANGED <<now, admins, courses, nextId, supplied, localAdmins, issued,
                 req, res, server, client, router, calls, debounced, seed>>

\* showEditCourse after its await of getCourseById
EditLoaded ==
  /\ app.flow["showEditCourse"] = "awaiting"
  /\ req.pc = "done"
  /\ \E rejected \in BOOLEAN :
       LET done == [Settle(hideLoading(app), "showEditCourse") EXCEPT !.editing = 0]
       IN IF rejected \/ ~Ok(res)
          THEN /\ app' = done
               /\ router' = router
          ELSE IF \A i \in 1..Len(res.list) : res.list[i].id # app.editing
          THEN /\ app' = Settled(done)
               /\ router' = navigate(router, AdminPath)
          ELSE \* showCourseForm(course) throws at getCategories().forEach
               /\ app' = done
               /\ router' = router
  /\ UNCHANGED <<now, admins, courses, nextId, supplied, localAdmins, issued,
                 req, res, server, client, calls, debounced, seed>>

\* the login form's submit handler up to its await of authManager.login
SubmitLogin ==
  /\ app.page = "admin-login"
  /\ FetchFree
  /\ server = "listening"
  /\ \E u \in Usernames, p \in Passwords : req' = login(u, p)
  /\ res' = NoRes
  /\ app' = Await(showLoading([app EXCEPT !.loginResult = "none"]), "login")
  /\ UNCHANGED <<now, admins, courses, nextId, supplied, localAdmins, issued,
                 server, client, router, calls, debounced, seed>>

\* authManager.login after its fetch, and the submit handler after it
LoginReturns ==
  /\ app.flow["login"] = "awaiting"
  /\ req.pc = "done"
  /\ \E rejected \in BOOLEAN :
       LET done == Settle(hideLoading(app), "login")
       IN IF rejected
          THEN /\ app' = [done EXCEPT !.loginResult = "threw"]
               /\ UNCHANGED <<client, router>>
          ELSE IF Ok(res)
          THEN /\ client' = LoggedIn(client, res)
               /\ app' = Settled([done EXCEPT !.loginResult = "true"])
               /\ router' = navigate(router, AdminPath)
          ELSE /\ app' = [done EXCEPT !.loginResult = "false"]
               /\ UNCHANGED <<client, router>>
  /\ UNCHANGED <<now, admins, courses, nextId, supplied, localAdmins, issued,
                 req, res, server, calls, debounced, seed>>

\* the auth button while a token is stored: App.handleLogout
HandleLogout ==
  /\ isAuthenticated
  /\ client' = LoggedOut(client, now)
  /\ app' = Settled(app)
  /\ router' = navigate(router, Root)
  /\ UNCHANGED <<now, admins, courses, nextId, supplied, localAdmins, issued,
                 req, res, server, calls, debounced, seed>>

\* a Delete button of the dashboard table, confirmed: App.deleteCourse(id) up
\* to its await of courseManager.deleteCourse(id)
AppDeleteCourse ==
  /\ app.page = "admin-dashboard"
  /\ FetchFree
  /\ server = "listening"
  /\ \E id \in app.rows : req' = deleteCourse(id, NoArgument)
  /\ res' = NoRes
  /\ app' = Await(showLoading(app), "deleteCourse")
  /\ UNCHANGED <<now, admins, courses, nextId, supplied, localAdmins, issued,
                 server, client, router, calls, debounced, seed>>

\* App.deleteCourse after its await: CourseManager.deleteCourse throws unless
\* res.ok; on success the dashboard is loaded again
DeleteReturns ==
  /\ app.flow["deleteCourse"] = "awaiting"
  /\ app.flow["loadAdminDashboard"] = "idle"
  /\ req.pc = "done"
  /\ \E rejected \in BOOLEAN :
       IF rejected \/ ~Ok(res)
       THEN /\ app' = Settle(hideLoading(app), "deleteCourse")
            /\ UNCHANGED <<req, res>>
       ELSE /\ app' = Await(showLoading(app),
                            "loadAdminDashboard")
            /\ req' = getAllCourses
            /\ res' = NoRes
  /\ UNCHANGED <<now, admins, courses, nextId, supplied, localAdmins, issued,
                 server, client, router, calls, debounced, seed>>

Tick ==
  /\ now < MaxTime
  /\ now' = now + 1
  /\ UNCHANGED <<admins, courses, nextId, supplied, localAdmins, issued, req, res,
               server, client, router, calls,
                 app, debounced, seed>>

\* the tables after migration and seeding, no request in flight, no session
Fresh ==
  /\ now = 0
  /\ admins = SeedAdmins
  /\ courses = <<>>
  /\ nextId = 1
  /\ supplied = <<>>
  /\ localAdmins = {}
  /\ issued = {}
  /\ req = Idle
  /\ res = NoRes
  /\ client = NoSession

\* the service once it listens
Init ==
  /\ Fresh
  /\ server = "listening"
  /\ router = NoRouter
  /\ calls = NoCalls
  /\ app = NoApp
  /\ debounced = NoDebounce
  /\ seed = NoSeed

\* the process as node starts it
InitStartup ==
  /\ Fresh
  /\ server = "starting"
  /\ router = NoRouter
  /\ calls = NoCalls
  /\ app = NoApp
  /\ debounced = NoDebounce
  /\ seed = NoSeed

Next ==
  \/ Tick
  \/ Receive(Requests)
  \/ AuthenticateToken
  \/ Upload
  \/ Login
  \/ GetAllCourses
  \/ PublicCourses
  \/ CreateCourse
  \/ UpdateCourse
  \/ DeleteCourse
  \/ CreateLocalAdmin

Spec == Init /\ [][Next]_vars

\* the catalog under a logged-in admin: course requests with valid tokens
NextCatalog ==
  \/ Receive(CatalogRequests)
  \/ AuthenticateToken
  \/ Upload
  \/ Login
  \/ GetAllCourses
  \/ PublicCourses
  \/ CreateCourse
  \/ UpdateCourse
  \/ DeleteCourse

SpecCatalog == Init /\ [][NextCatalog]_vars

\* creates with every kind of input, and the two listings
NextInputs ==
  \/ Receive(InputRequests)
  \/ AuthenticateToken
  \/ Upload
  \/ Login
  \/ GetAllCourses
  \/ PublicCourses
  \/ CreateCourse

SpecInputs == Init /\ [][NextInputs]_vars

\* the process from its start: the store is authenticated, then the service
\* listens and answers requests
NextStartup ==
  \/ Authenticate
  \/ OnResolved
  \/ OnRejected
  \/ ProcessExit
  \/ NextInputs

SpecStartup == InitStartup /\ [][NextStartup]_vars

\* the promise callbacks run once the promise has settled, and a process
\* with nothing pending ends
FairStartup ==
  SpecStartup /\ WF_vars(OnResolved) /\ WF_vars(OnRejected) /\ WF_vars(ProcessExit)

\* logins, logouts and course operations as time passes
NextSession ==
  \/ Tick
  \/ ReceiveSession
  \/ AuthenticateToken
  \/ Upload
  \/ Login
  \/ StoreSession
  \/ Logout
  \/ GetAllCourses
  \/ CreateCourse

SpecSession == Init /\ [][NextSession]_vars

\* the single-page frontend: a page opened at any hash, then navigation
InitRouter ==
  /\ Fresh
  /\ server = "listening"
  /\ router \in {Loaded(h) : h \in Hashes}
  /\ calls = NoCalls
  /\ app = NoApp
  /\ debounced = NoDebounce
  /\ seed = NoSeed

NextRouter ==
  \/ Navigate
  \/ HandleRoute

SpecRouter == InitRouter /\ [][NextRouter]_vars

\* a load or hashchange event that is pending is delivered
FairRouter == SpecRouter /\ WF_vars(HandleRoute)

\* createLocalAdmin calls in flight together, over a localAdmin table with
\* or without a unique email
InitCalls ==
  /\ Fresh
  /\ server = "listening"
  /\ router = NoRouter
  /\ calls \in {[NoCalls EXCEPT !.unique = u] : u \in BOOLEAN}
  /\ app = NoApp
  /\ debounced = NoDebounce
  /\ seed = NoSeed

NextCalls ==
  \/ \E i \in Slots : CallArrives(i)
  \/ \E i \in Slots : CallChecks(i)
  \/ \E i \in Slots : CallCreates(i)

SpecCalls == InitCalls /\ [][NextCalls]_vars

\* the single-page frontend opened by a visitor who may sign in as the admin,
\* against a listening service whose store holds one of Catalogs
InitApp ==
  /\ now = 0
  /\ admins = SeedAdmins
  /\ courses \in Catalogs
  /\ nextId = Len(courses) + 1
  /\ supplied = [i \in 1..Len(courses) |-> ArrayInputs(PlainBody)]
  /\ localAdmins = {}
  /\ issued = {}
  /\ req = Idle
  /\ res = NoRes
  /\ server = "listening"
  /\ client = NoSession
  /\ router \in {Loaded(h) : h \in AppLinks \cup {<<>>}}
  /\ calls = NoCalls
  /\ app = Constructed
  /\ debounced = NoDebounce
  /\ seed = NoSeed

NextApp ==
  \/ FollowLink
  \/ Dispatch
  \/ InitTimer
  \/ Reload
  \/ SubmitLogin
  \/ Login
  \/ LoginReturns
  \/ HandleLogout
  \/ PublicCourses
  \/ DashboardLoaded
  \/ EditLoaded
  \/ AppDeleteCourse
  \/ AuthenticateToken
  \/ DeleteReturns

\* the seed script run again and again against a migrated, empty Admin table
InitSeed ==
  /\ now = 0
  /\ admins = {}
  /\ courses = <<>>
  /\ nextId = 1
  /\ supplied = <<>>
  /\ localAdmins = {}
  /\ issued = {}
  /\ req = Idle
  /\ res = NoRes
  /\ server = "starting"
  /\ client = NoSession
  /\ router = NoRouter
  /\ calls = NoCalls
  /\ app = NoApp
  /\ debounced = NoDebounce
  /\ seed = NoSeed

NextSeed ==
  \/ RunSeed
  \/ FindExisting
  \/ CreateAdmin

SpecSeed == InitSeed /\ [][NextSeed]_vars

\* a debounced function called as time passes
NextDebounce ==
  \/ Elapse
  \/ executedFunction
  \/ later

SpecDebounce == Init /\ [][NextDebounce]_vars

\* time passes and a due timer fires
FairDebounce == SpecDebounce /\ WF_vars(Elapse) /\ WF_vars(later)

SpecApp == InitApp /\ [][NextApp]_vars

\* timers fire, the service answers and a settled fetch resumes its flow
FairApp ==
  /\ SpecApp
  /\ WF_vars(InitTimer)
  /\ WF_vars(Login) /\ WF_vars(PublicCourses) /\ WF_vars(AuthenticateToken)
  /\ WF_vars(LoginReturns) /\ WF_vars(DashboardLoaded)
  /\ WF_vars(EditLoaded) /\ WF_vars(DeleteReturns)

(* ====================================================================== *)
(* Properties                                                              *)
(* ====================================================================== *)
Range(f) == {f[i] : i \in DOMAIN f}

\* the gate has run for the request in flight
GateRan == Len(req.ran) >= 1 /\ req.ran[1] = "authenticateToken"

\* the gate stopped the request with status s and message m, and nothing else
StoppedAtGate(s, m) ==
  /\ req.pc = "done"
  /\ req.ran = <<"authenticateToken">>
  /\ req.nextCalls = 0
  /\ req.user = NoUser
  /\ res = Json(NoRes, s, m)

\* the header has no second space-separated part: it is absent or holds no space
NoSecondPart(h) == ~h.present \/ \A i \in 1..Len(h.chars) : h.chars[i] # Sp

\* the header's second space-separated part is a non-empty token text
CarriesToken(h) ==
  /\ h.present
  /\ Len(Split(h.chars)) >= 2
  /\ Split(h.chars)[2] # <<>>

\* the token text is a token login issued, presented before its expiry
Genuine(text, at) ==
  /\ Len(text) = 1
  /\ text[1].c = "jwt"
  /\ text[1].tok \in issued
  /\ at < text[1].tok.iat + ExpiresIn

\* C1: a request reaching the gate without an Authorization header, or with
\* one that has no second space-separated part, is answered 401 'Access
\* denied. No token provided.', the downstream handler never runs, and the
\* response carries no course data.
C1_NoTokenRejected ==
  (GateRan /\ NoSecondPart(req.header)) =>
    /\ StoppedAtGate(401, "Access denied. No token provided.")
    /\ res.list = <<>>
    /\ res.course = NoCourse

\* C1 witness: GET /api/courses without a header was answered 401 while the
\* table holds a course
C1_Witness ==
  /\ req.pc = "done"
  /\ req.route = "GET /api/courses"
  /\ req.header = NoHeader
  /\ res.status = 401
  /\ Len(courses) > 0

\* C2: a request carrying a token whose verification fails (bad signature or
\* expired) is answered 403 'Invalid or expired token.', req.user is not set
\* and the downstream handler is not invoked.
C2_BadTokenRejected ==
  (GateRan /\ CarriesToken(req.header)
     /\ ~Genuine(Split(req.header.chars)[2], req.gateAt)) =>
    StoppedAtGate(403, "Invalid or expired token.")

\* C2 witness: an issued token presented at or after its expiry was answered 403
C2_Witness ==
  /\ req.pc = "done"
  /\ \E t \in issued : req.header = BearerHdr(t) /\ req.gateAt >= t.exp
  /\ res.status = 403

\* C3: for a request carrying a token that verifies, the gate attaches the
\* decoded payload (adminId, username) to the request, invokes next exactly
\* once, and the request runs its route's handlers in order whoever the
\* admin is (no role check).
C3_ValidTokenProceeds ==
  (GateRan /\ CarriesToken(req.header)
     /\ Genuine(Split(req.header.chars)[2], req.gateAt)) =>
    LET t == Split(req.header.chars)[2][1].tok
    IN /\ req.user = Payload(t)
       /\ \E a \in admins : req.user.adminId = a.id /\ req.user.username = a.username
       /\ req.nextCalls = 1
       /\ Len(req.ran) >= 1
       /\ req.ran = SubSeq(Stack(req.route), 1, Len(req.ran))
       /\ req.pc = "done" => req.ran = Stack(req.route)
       /\ res.status \notin {401, 403}

\* C3 witness: a valid token has carried a DELETE through to deleteCourse
C3_Witness ==
  /\ req.pc = "done"
  /\ req.route = "DELETE /api/courses/:id"
  /\ req.ran = <<"authenticateToken", "deleteCourse">>
  /\ req.user.username = "pown"
  /\ req.nextCalls = 1

ProtectedHandlers == {"getAllCourses", "createCourse", "updateCourse",
                      "deleteCourse", "createLocalAdmin"}

\* C4: on every admin route (GET, POST, PUT, DELETE under /api/courses and
\* POST /api/localadmins) the gate runs before the handler: a protected
\* handler has run, or is about to run, only for a request that first passed
\* the gate with a token login issued, unexpired when the gate ran.
C4_GateBeforeHandler ==
  ((req.route \in AdminRoutes /\ req.idx > 1)
     \/ Range(req.ran) \cap ProtectedHandlers # {}) =>
    /\ req.route \in AdminRoutes
    /\ GateRan
    /\ CarriesToken(req.header)
    /\ Genuine(Split(req.header.chars)[2], req.gateAt)
    /\ req.user # NoUser

\* C4 witness: createLocalAdmin has run behind the gate
C4_Witness ==
  /\ req.pc = "done"
  /\ req.route = "POST /api/localadmins"
  /\ req.ran = <<"authenticateToken", "createLocalAdmin">>
  /\ res.status = 201

\* the credentials of the body are those of a stored admin
ValidCredentials(b) ==
  \E a \in admins : a.username = b.username /\ a.password = bcryptHash(b.password)

LoginDone == req.pc = "done" /\ req.route = "POST /api/admin/login"

C6_TokenLifetime ==
  /\ \A t \in issued :
       /\ \E a \in admins : t.adminId = a.id /\ t.username = a.username
       /\ now < t.iat + ExpiresIn => jwtVerify(<<J(t)>>, SECRET_KEY, now)
       /\ now > t.iat + ExpiresIn => ~jwtVerify(<<J(t)>>, SECRET_KEY, now)
       /\ (GateRan /\ req.header = BearerHdr(t)) =>
            /\ req.gateAt < t.iat + ExpiresIn => req.nextCalls = 1
            /\ req.gateAt > t.iat + ExpiresIn => res.status = 403
  /\ (LoginDone /\ ~req.fault /\ ValidCredentials(req.body)) =>
       /\ res.status = 200
       /\ res.token \in issued
       /\ res.token.username = req.body.username
       /\ res.token.iat + ExpiresIn > now => jwtVerify(<<J(res.token)>>, SECRET_KEY, now)

\* C6 witness: a token was accepted by verify when issued and, presented
\* after its hour, was rejected by the gate
C6_Witness ==
  \E t \in issued :
    /\ jwtVerify(<<J(t)>>, SECRET_KEY, t.iat)
    /\ now > t.iat + ExpiresIn
    /\ req.header = BearerHdr(t)
    /\ req.gateAt > t.iat + ExpiresIn
    /\ res.status = 403

ListDone(route) == req.pc = "done" /\ req.route = route /\ res.status = 200

\* C7: a listing asked with category = X returns only courses whose category
\* is X, on the authenticated GET /api/courses route as well as in the
\* public listing.
C7_CategoryFilter ==
  ((ListDone("GET /api/courses") \/ ListDone("GET /public/courses"))
     /\ req.category # Undef) =>
    \A i \in 1..Len(res.list) : res.list[i].category = req.category

\* C8: delete on a non-existent course id answers 404 and leaves every
\* stored course unchanged; delete on an existing id removes exactly that
\* record and no other.
C8_DeleteFrame ==
  [][(Current = "deleteCourse" /\ req'.pc = "done" /\ ~req'.fault) =>
       IF req.id \notin Ids(courses)
       THEN /\ res'.status = 404
            /\ courses' = courses
       ELSE /\ res'.status = 200
            /\ Ids(courses') = Ids(courses) \ {req.id}
            /\ Len(courses') = Len(courses) - 1
            /\ \A i \in 1..Len(courses) :
                 courses[i].id # req.id => courses[i] \in Range(courses')]_vars

\* C8 witness: a delete of an id that is not stored was answered 404 while
\* other courses are stored
C8_Witness ==
  /\ req.pc = "done"
  /\ req.route = "DELETE /api/courses/:id"
  /\ req.id \notin Ids(courses)
  /\ res.status = 404
  /\ Len(courses) >= 1

\* C9: update on an existing course changes only the fields the request
\* supplies (an uploaded file supplies image) and leaves every other field of
\* that course and every other course unchanged; on a non-existent id it
\* answers 404 and changes nothing.
C9_UpdateFrame ==
  [][(Current = "updateCourse" /\ req'.pc = "done" /\ ~req'.fault) =>
       IF req.id \notin Ids(courses)
       THEN /\ res'.status = 404
            /\ courses' = courses
       ELSE /\ res'.status = 200
            /\ Len(courses') = Len(courses)
            /\ \A i \in 1..Len(courses) :
                 IF courses[i].id # req.id
                 THEN courses'[i] = courses[i]
                 ELSE /\ courses'[i].id = courses[i].id
                      /\ req.body.title = Undef => courses'[i].title = courses[i].title
                      /\ req.body.title # Undef => courses'[i].title = req.body.title
                      /\ req.body.category = Undef =>
                           courses'[i].category = courses[i].category
                      /\ req.body.category # Undef =>
                           courses'[i].category = req.body.category
                      /\ req.body.tags = Undef => courses'[i].tags = courses[i].tags
                      /\ req.body.whatYoullLearn = Undef =>
                           courses'[i].whatYoullLearn = courses[i].whatYoullLearn
                      /\ req.file = Undef => courses'[i].image = courses[i].image]_vars

\* C9 witness: an update that supplied a title and a category was answered
\* 200 for a course that keeps the tags and image it was created with, next
\* to another course
C9_Witness ==
  /\ req.pc = "done"
  /\ req.route = "PUT /api/courses/:id"
  /\ res.status = 200
  /\ req.body.tags = Undef
  /\ Len(courses) = 2
  /\ \E i \in 1..Len(courses) :
       /\ courses[i].id = req.id
       /\ courses[i].title = Str(<<"New">>)
       /\ courses[i].tags = JSONstringify(TagsAB)
       /\ courses[i].image # Undef

\* the request supplied an array of strings, its JSON text, or nothing
IsArrayInput(v) ==
  \/ v.t \in {"undefined", "array"}
  \/ \E a \in Arrays : JSONstringify(Arr(a)) = v

\* the array such an input stands for ([] for an absent one)
ExpectedArray(v) ==
  IF v.t = "undefined" THEN Arr(<<>>)
  ELSE IF v.t = "array" THEN v
  ELSE Arr(CHOOSE a \in Arrays : JSONstringify(Arr(a)) = v)

RoundTrips(input, output) == IsArrayInput(input) => output = ExpectedArray(input)

\* C10: for an array of strings supplied as tags or whatYoullLearn (as an
\* array or as its JSON text) the course returned by create with 201, and by
\* a subsequent listing, carries that same array in the same order; for an
\* absent input the returned value is [].
C10_RoundTrip ==
  /\ (req.pc = "done" /\ req.route = "POST /api/courses" /\ res.status = 201) =>
       /\ RoundTrips(req.body.tags, res.course.tags)
       /\ RoundTrips(req.body.whatYoullLearn, res.course.whatYoullLearn)
  /\ ListDone("GET /api/courses") =>
       \A i \in 1..Len(res.list) :
         /\ RoundTrips(supplied[res.list[i].id].tags, res.list[i].tags)
         /\ RoundTrips(supplied[res.list[i].id].whatYoullLearn,
                       res.list[i].whatYoullLearn)

\* what does hold: create's response and the public listing round-trip both
\* fields, the authenticated listing round-trips tags and every supplied
\* whatYoullLearn
C10_HoldsElsewhere ==
  /\ (req.pc = "done" /\ req.route = "POST /api/courses" /\ res.status = 201) =>
       /\ RoundTrips(req.body.tags, res.course.tags)
       /\ RoundTrips(req.body.whatYoullLearn, res.course.whatYoullLearn)
  /\ ListDone("GET /public/courses") =>
       \A i \in 1..Len(res.list) :
         /\ RoundTrips(supplied[res.list[i].id].tags, res.list[i].tags)
         /\ RoundTrips(supplied[res.list[i].id].whatYoullLearn,
                       res.list[i].whatYoullLearn)
  /\ ListDone("GET /api/courses") =>
       \A i \in 1..Len(res.list) :
         /\ RoundTrips(supplied[res.list[i].id].tags, res.list[i].tags)
         /\ supplied[res.list[i].id].whatYoullLearn # Undef =>
              RoundTrips(supplied[res.list[i].id].whatYoullLearn,
                         res.list[i].whatYoullLearn)

\* a stored value that is the JSON text of an array
IsArrayText(v) ==
  /\ v.t = "string"
  /\ JSONparseText(v.text).ok
  /\ IsArray(JSONparseText(v.text).val)

\* C11: after any sequence of creates, whatever was sent as tags and
\* whatYoullLearn (an array, the JSON text of an array or of another value, a
\* text that is no JSON, nothing), the value stored in each of the two fields
\* of every course is the JSON text of an array, or absent.
C11_StoredArrayText ==
  \A i \in 1..Len(courses) :
    /\ courses[i].tags = Undef \/ IsArrayText(courses[i].tags)
    /\ courses[i].whatYoullLearn = Undef \/ IsArrayText(courses[i].whatYoullLearn)

\* what does hold: arrays, JSON texts of arrays, texts that are no JSON and
\* absent inputs are stored as the JSON text of an array or as absent
C11_HoldsForArrays ==
  \A i \in 1..Len(courses) :
    /\ supplied[i].tags \in {Undef, Arr(<<"a">>), TextBA, NoJson} =>
         courses[i].tags = Undef \/ IsArrayText(courses[i].tags)
    /\ supplied[i].whatYoullLearn \in {Undef, Arr(<<"a">>), TextBA, NoJson} =>
         courses[i].whatYoullLearn = Undef \/ IsArrayText(courses[i].whatYoullLearn)

ListRoutes == {"GET /api/courses", "GET /public/courses"}

\* C12: every listing, authenticated and public, whose store call succeeds
\* answers 200 with one entry per stored course, tags and whatYoullLearn
\* being arrays in every entry: the empty array where the stored value is
\* null or does not parse.
C12_ListsYieldArrays ==
  (req.pc = "done" /\ req.route \in ListRoutes /\ ~req.fault) =>
    /\ res.status = 200
    /\ Len(res.list) = Len(courses)
    /\ \A i \in 1..Len(res.list) :
         /\ IsArray(res.list[i].tags)
         /\ IsArray(res.list[i].whatYoullLearn)
         /\ (courses[i].tags = Undef \/ ~JSONparse(courses[i].tags).ok) =>
              res.list[i].tags = Arr(<<>>)
         /\ (courses[i].whatYoullLearn = Undef
               \/ ~JSONparse(courses[i].whatYoullLearn).ok) =>
              res.list[i].whatYoullLearn = Arr(<<>>)

\* what does hold: both listings answer 200 with arrays while every stored
\* value is the JSON text of an array
C12_HoldsForArrayText ==
  (req.pc = "done" /\ req.route \in ListRoutes /\ ~req.fault
     /\ \A i \in 1..Len(courses) : IsArrayText(courses[i].tags)
                                    /\ IsArrayText(courses[i].whatYoullLearn)) =>
    /\ res.status = 200
    /\ Len(res.list) = Len(courses)
    /\ \A i \in 1..Len(res.list) : IsArray(res.list[i].tags)
                                     /\ IsArray(res.list[i].whatYoullLearn)

CreateDone == req.pc = "done" /\ req.route = "POST /api/courses"

\* the text with every backslash turned into a forward slash
Slashed(txt, out) ==
  /\ Len(out) = Len(txt)
  /\ \A i \in 1..Len(txt) : out[i] = (IF txt[i] = "\\" THEN "/" ELSE txt[i])

\* C13: create stores as the course's image the uploaded file's path with
\* every backslash replaced by a forward slash when a file was uploaded, and
\* null when none was, whatever image value the request body carries.
C13_ImageFromUpload ==
  [][(Current = "createCourse" /\ Len(courses') = Len(courses) + 1) =>
       LET image == courses'[Len(courses')].image
       IN IF Truthy(req.file)
          THEN /\ image.t = "string"
               /\ Slashed(req.file.text, image.text)
          ELSE image = Undef]_vars

\* C13 witness: a create that uploaded uploads\1.png and sent an image field
\* of its own was answered 201 and stored uploads/1.png
C13_Witness ==
  /\ CreateDone
  /\ res.status = 201
  /\ req.body.image = BodyImage
  /\ req.file = File1
  /\ courses[Len(courses)].image = Str(<<"uploads", "/", "1.png">>)
  /\ res.course.image = Str(<<"uploads", "/", "1.png">>)

\* C14: create with a missing title fails with status 400 and adds no course
\* to the store: no stored course is without a title.
C14_TitleRequired ==
  /\ (CreateDone /\ ~req.fault /\ req.body.title = Undef) => res.status = 400
  /\ \A i \in 1..Len(courses) : courses[i].title # Undef

\* limit: 10 of publicController.getAllCourses, on the scale of MaxCourses
PublicLimit == 1

\* C15: the public listing is answered without an Authorization header, with
\* no more courses than the cap and no more than the authenticated listing
\* returns from the same store.
C15_PublicCap ==
  ListDone("GET /public/courses") =>
    /\ ~req.header.present
    /\ Len(res.list) <= PublicLimit
    /\ Len(res.list) <= Len(AdminListRows(req.category))

\* what does hold: the public listing needs no Authorization header and
\* returns as many courses as the authenticated listing would
C15_HoldsWithoutCap ==
  ListDone("GET /public/courses") =>
    /\ ~req.header.present
    /\ req.ran = <<"publicCourses">>
    /\ Len(res.list) = Len(AdminListRows(req.category))

\* the handlers that call the store or a library inside a try block
FaultHandlers == {"login", "getAllCourses", "publicCourses", "createCourse",
                  "createLocalAdmin"}

\* C16: when a store or library call fails inside login, a listing, create or
\* createLocalAdmin, the handler sends exactly one response, with status 500
\* and a message, and no success status, token or course data.
C16_FailureIs500 ==
  (req.pc = "done" /\ req.fault /\ req.ran[Len(req.ran)] \in FaultHandlers) =>
    /\ res.sent = 1
    /\ res.status = 500
    /\ res.status \notin {200, 201}
    /\ res.message # ""
    /\ res.token = NoToken
    /\ res.list = <<>>
    /\ res.course = NoCourse

\* C16 witness: a login with valid credentials whose store or library call
\* failed was answered 500
C16_Witness ==
  /\ LoginDone
  /\ req.fault
  /\ ValidCredentials(req.body)
  /\ res.status = 500
  /\ res.sent = 1

\* the store could not be reached: the promise rejected, now or earlier
StartupFailed == server \in {"rejected", "logged", "exited"}

C17_Listening ==
  /\ server = "listening"
  /\ req.pc = "done"
  /\ res.status = 201

\* the gate has decided on a request that presented token t as Bearer
GateDecided(t) == GateRan /\ req.header = BearerHdr(t)

\* C18: no revocation. A token login issued is accepted by verification and
\* by the gate at every time before its expiry, whatever happened in between
\* (the frontend logged out and dropped it, further logins issued other
\* tokens, courses were created and listed); the gate rejects it only once it
\* has expired.
C18_NoRevocation ==
  \A t \in issued :
    /\ now < t.exp => jwtVerify(<<J(t)>>, SECRET_KEY, now)
    /\ (GateDecided(t) /\ req.gateAt < t.exp) =>
         /\ req.nextCalls = 1
         /\ req.user = Payload(t)
         /\ res.status \notin {401, 403}
    /\ (GateDecided(t) /\ res.status \in {401, 403}) => req.gateAt >= t.exp

\* C18 witness: a token the frontend dropped at logout passed the gate
\* afterwards, before its expiry, after a further login had issued another
\* token and a course had been created
C18_Witness ==
  \E d \in client.dropped :
    LET t == d.token
    IN
    /\ t \in issued
    /\ issued # {t}
    /\ Len(courses) > 0
    /\ GateDecided(t)
    /\ d.at < req.gateAt
    /\ req.gateAt < t.exp
    /\ req.nextCalls = 1
    /\ req.pc = "done"
    /\ res.status = 200

\* C19: no request handler creates, modifies or deletes an Admin record:
\* login with valid or invalid credentials, every course request and every
\* local-admin request leave the Admin table as the seed script left it.
C19_AdminsUntouched ==
  /\ [][admins' = admins]_vars
  /\ [](admins = SeedAdmins)

\* C19 witness: after a login that issued a token, a created course and a
\* created local admin, the Admin table is still the seeded one
C19_Witness ==
  /\ issued # {}
  /\ Len(courses) > 0
  /\ localAdmins # {}
  /\ req.pc = "done"
  /\ req.route = "POST /api/localadmins"
  /\ res.status = 201
  /\ admins = SeedAdmins

\* what is left of h after its first n words
Remainder(h, n) == SubSeq(h, n + 1, Len(h))

Call(handler, arg) == [handler |-> handler, arg |-> arg]

\* handleRoute has dispatched the hash it read to this one call
Dispatched(h, call) ==
  /\ router.invoked = <<call>>
  /\ router.currentRoute = h

\* C20: handleRoute dispatches a registered hash to its registered handler;
\* otherwise a hash beginning with '/course/' to showCourseDetail with the
\* remainder as slug, and a hash beginning with '/admin/courses/edit/' to
\* showEditCourse with the remainder as id; in each of these cases
\* currentRoute is set to the hash and exactly one handler is invoked.
C20_Dispatch ==
  router.handled # NoRoute =>
    LET h == router.handled
    IN /\ h = Root => Dispatched(h, Call("showHomePage", <<>>))
       /\ h = <<"/", "courses">> => Dispatched(h, Call("showCoursesPage", <<>>))
       /\ h = <<"/", "admin">> => Dispatched(h, Call("showAdminDashboard", <<>>))
       /\ h = <<"/", "admin", "/", "login">> =>
            Dispatched(h, Call("showAdminLogin", <<>>))
       /\ h = <<"/", "admin", "/", "courses", "/", "add">> =>
            Dispatched(h, Call("showAddCourse", <<>>))
       /\ (Len(h) >= 3 /\ SubSeq(h, 1, 3) = <<"/", "course", "/">>) =>
            Dispatched(h, Call("showCourseDetail", Remainder(h, 3)))
       /\ (Len(h) >= 7
             /\ SubSeq(h, 1, 7) = <<"/", "admin", "/", "courses", "/", "edit", "/">>) =>
            Dispatched(h, Call("showEditCourse", Remainder(h, 7)))

\* C20 witness: the hash /course/js/course/js was dispatched to
\* showCourseDetail with the slug js/course/js
C20_Witness ==
  /\ router.handled = <<"/", "course", "/", "js", "/", "course", "/", "js">>
  /\ router.currentRoute = router.handled
  /\ router.invoked = <<Call("showCourseDetail", <<"js", "/", "course", "/", "js">>)>>
  /\ ~router.pending

\* C20, on the edit route: /admin/courses/edit/js was dispatched to
\* showEditCourse with the id js
C20_EditReached ==
  /\ router.handled = EditPrefix \o <<"js">>
  /\ router.invoked = <<Call("showEditCourse", <<"js">>)>>

\* the three outcomes of one run of the gate, as steps
GateNoToken ==
  /\ res' = Json(res, 401, "Access denied. No token provided.")
  /\ req'.nextCalls = req.nextCalls
  /\ req'.pc = "done"

GateBadToken ==
  /\ res' = Json(res, 403, "Invalid or expired token.")
  /\ req'.nextCalls = req.nextCalls
  /\ req'.pc = "done"

GateValid ==
  /\ res' = res
  /\ req'.nextCalls = req.nextCalls + 1
  /\ req'.pc = "run"
  /\ req'.idx = req.idx + 1

\* C21: each request entering authenticateToken ends in exactly one of the
\* outcomes NoToken (401 sent), BadToken (403 sent) or Valid (next invoked):
\* the gate never both sends a response and invokes next, never sends two
\* responses, and never leaves a request with neither.
C21_OneOutcome ==
  [][(Current = "authenticateToken" /\ req' # req) =>
       /\ GateNoToken \/ GateBadToken \/ GateValid
       /\ ~(GateNoToken /\ GateBadToken)
       /\ ~(GateNoToken /\ GateValid)
       /\ ~(GateBadToken /\ GateValid)
       /\ res.sent = 0
       /\ res'.sent + (req'.nextCalls - req.nextCalls) = 1]_vars

\* C21 witness: a header 'Bearer ' with an empty second part ended at the
\* gate with the single response 401 and no next()
C21_Witness ==
  /\ req.pc = "done"
  /\ req.header = Hdr(<<Bearer, Sp>>)
  /\ req.ran = <<"authenticateToken">>
  /\ res.sent = 1
  /\ res.status = 401
  /\ req.nextCalls = 0

\* the calls that were answered with status s
Answered(s) == {i \in Slots : calls.slot[i].pc = "done" /\ calls.slot[i].status = s}

\* no two rows of the localAdmin table share an email, and no two calls with
\* the same email were both answered 201
OnePerEmail ==
  /\ \A a, b \in localAdmins : a.email = b.email => a = b
  /\ \A i, j \in Answered(201) :
       calls.slot[i].body.email = calls.slot[j].body.email => i = j

\* C22: under any interleaving of concurrent createLocalAdmin requests with
\* the same email, at most one localAdmin row with that email exists and at
\* most one of the requests is answered 201.
C22_OnePerEmail == OnePerEmail

\* what the handler's source decides: over a table with a unique email the
\* property holds, the losing call being answered 500
C22_HoldsWithUniqueEmail == calls.unique => OnePerEmail

\* and the existence check alone does not serialize the calls: two calls with
\* the same email can both stand between findOne and create
C22_BothPastCheck ==
  \E i, j \in Slots :
    /\ i # j
    /\ calls.slot[i].pc = "creating"
    /\ calls.slot[j].pc = "creating"
    /\ calls.slot[i].body.email = calls.slot[j].body.email

\* call i leaves the field check and findOne in this step
Checked(i) == calls.slot[i].pc = "entered" /\ calls'.slot[i].pc # "entered"

\* C24: createLocalAdmin answers 400 when any of name, email, password, role
\* is missing and 409 when a localAdmin with the email already exists (the
\* lookup not failing), in both cases creating no record; on 201 the stored
\* password is the bcrypt hash and never the plaintext, and no response body
\* contains the password or its hash.
C24_LocalAdminAnswers ==
  /\ [][\A i \in Slots :
          Checked(i) =>
            LET b == calls.slot[i].body
                status == calls'.slot[i].status
            IN /\ MissingField(b) => (status = 400 /\ localAdmins' = localAdmins)
               /\ (~MissingField(b) /\ EmailTaken(b.email) /\ status # 500) =>
                    (status = 409 /\ localAdmins' = localAdmins)
               /\ calls'.slot[i].pc = "done" => localAdmins' = localAdmins]_vars
  /\ [](\A a \in localAdmins :
          /\ a.password = bcryptHash("pw")
          /\ DOMAIN a.password = {"alg", "of"})
  /\ [](\A i \in Slots :
          LET c == calls.slot[i]
          IN c.pc = "done" =>
               /\ "message" \in DOMAIN c.sent
               /\ DOMAIN c.sent \subseteq {"message", "LocalAdmin"}
               /\ c.status = 201 =>
                    /\ DOMAIN c.sent.LocalAdmin = {"id", "email", "role"}
                    /\ \E a \in localAdmins :
                         /\ a.id = c.sent.LocalAdmin.id
                         /\ a.email = c.body.email
                         /\ a.password = bcryptHash(c.body.password)
               /\ c.status # 201 => DOMAIN c.sent = {"message"})

\* C24 witness: one call was answered 201 and stored a hashed password, a
\* later call with the same email was answered 409, and one row exists
C24_Witness ==
  \E i, j \in Slots :
    /\ calls.slot[i].pc = "done" /\ calls.slot[i].status = 201
    /\ calls.slot[j].pc = "done" /\ calls.slot[j].status = 409
    /\ calls.slot[i].body.email = calls.slot[j].body.email
    /\ Cardinality(localAdmins) = 1
    /\ \A a \in localAdmins : a.password = bcryptHash("pw")

\* C24, the 400 answer: a call without a role was answered 400, no row stored
C24_MissingRole ==
  \E i \in Slots :
    /\ calls.slot[i].pc = "done"
    /\ calls.slot[i].body.role = ""
    /\ calls.slot[i].status = 400
    /\ localAdmins = {}

\* a course mutation sent by the App is at the service
AppMutation ==
  /\ req.pc # "idle"
  /\ req.route \in {"POST /api/courses", "PUT /api/courses/:id",
                    "DELETE /api/courses/:id"}

\* C23: every admin mutation the App sends while a token is stored carries
\* that token as 'Authorization: Bearer <token>', whether it comes from the
\* course form or from a Delete button, and so passes the auth gate.
C23_SendsStoredToken ==
  isAuthenticated =>
    /\ \A course \in {0, 1} :
         handleCourseFormSubmit(course, PlainBody).header = BearerHdr(client.token)
    /\ AppMutation =>
         /\ req.header = BearerHdr(client.token)
         /\ GateRan => req.user # NoUser

\* what does hold: the App passes no token to CourseManager, so each of its
\* mutations carries 'Bearer undefined', is stopped by the gate with 403 and
\* reaches no course handler
C23_BearerUndefined ==
  /\ \A course \in {0, 1} :
       handleCourseFormSubmit(course, PlainBody).header = Authorization(NoArgument)
  /\ AppMutation =>
       /\ req.header = Authorization(NoArgument)
       /\ req.pc = "done" => StoppedAtGate(403, "Invalid or expired token.")

\* a logged-in admin's Delete was answered
C23_DeleteAnswered ==
  /\ isAuthenticated
  /\ AppMutation
  /\ req.pc = "done"
  /\ app.flow["deleteCourse"] = "idle"

\* localStorage and currentUser agree: either both items are absent and
\* currentUser is null, or both are stored and currentUser carries them
AuthAgree ==
  IF client.token = NoToken
  THEN client.username = "" /\ client.currentUser = NullUser
  ELSE /\ client.username # ""
       /\ client.currentUser = CurrentUser(client.username, client.token)

\* a step in which authManager.login returned
LoginReturned == app.flow["login"] = "awaiting" /\ app'.loginResult # "none"

\* C27: a login that fails (login returns false, or its fetch throws) leaves
\* localStorage and currentUser as they were; a login that succeeds stores
\* adminToken and adminUsername and sets currentUser from the response; logout
\* removes both items and sets currentUser to null; so in every state
\* isAuthenticated() is true exactly when currentUser is non-null.
C27_AuthState ==
  /\ [](AuthAgree /\ (isAuthenticated <=> client.currentUser # NullUser))
  /\ [][/\ (LoginReturned /\ app'.loginResult # "true") => client' = client
        /\ (LoginReturned /\ app'.loginResult = "true") =>
             /\ Ok(res)
             /\ client'.token = res.token /\ client'.token # NoToken
             /\ client'.username = res.username
             /\ client'.currentUser = CurrentUser(res.username, res.token)
        /\ (isAuthenticated /\ ~isAuthenticated') =>
             /\ client'.username = ""
             /\ client'.currentUser = NullUser]_vars

\* a login failed while a token was stored, and the session is still there
C27_Witness ==
  /\ app.loginResult = "false"
  /\ isAuthenticated
  /\ client.currentUser # NullUser
  /\ client.dropped # {}

\* a step in which handleRoute ran: the pending event was taken, and no
\* session change or resumed flow moved the hash instead
DispatchStep ==
  /\ router.pending
  /\ router' # router
  /\ router'.handled = CurrentHash(router.hash)
  /\ client' = client
  /\ \A f \in Flows : app.flow[f] = "awaiting" => app'.flow[f] = "awaiting"

\* handleRoute called handler h
Called(h) == DispatchStep /\ RouteHandler(CurrentHash(router.hash)).handler = h

\* nothing was rendered and nothing fetched
NothingShown ==
  /\ app'.page = app.page
  /\ app'.rows = app.rows
  /\ app'.loading = app.loading
  /\ app'.flow = app.flow
  /\ req' = req

\* C26: without a stored token showAdminDashboard, showAddCourse and
\* showEditCourse render nothing and redirect to '/admin/login'; with one,
\* showAdminLogin renders nothing and redirects to '/admin'; the handler
\* dispatched after a redirect renders its page, so no more than one redirect
\* happens in a row and the redirects never loop.
C26_AdminGuard ==
  /\ [](app.redirects <= 1)
  /\ [][/\ \A h \in {"showAdminDashboard", "showAddCourse", "showEditCourse"} :
             (Called(h) /\ ~isAuthenticated) =>
               NothingShown /\ router'.hash = LoginPath /\ router'.pending
        /\ (Called("showAdminLogin") /\ isAuthenticated) =>
             NothingShown /\ router'.hash = AdminPath /\ router'.pending
        /\ (DispatchStep /\ app.redirects = 1) =>
             /\ app'.redirects = 0
             /\ ~router'.pending
             /\ app'.page = IF isAuthenticated THEN "admin-dashboard"
                            ELSE "admin-login"]_vars

\* a visitor without a token asked for the edit form and is being sent to
\* the login page
C26_Witness ==
  /\ ~isAuthenticated
  /\ app.redirects = 1
  /\ router.handled = EditPrefix \o <<"1">>
  /\ router.hash = LoginPath
  /\ router.pending

\* a logged-in admin asked for the login page and is being sent to the
\* dashboard
C26_LoggedInRedirect ==
  /\ isAuthenticated
  /\ app.redirects = 1
  /\ router.handled = LoginPath
  /\ router.hash = AdminPath

\* C28: every flow that shows the loading spinner hides it again on each of
\* its exit paths, and while any of the flows is still awaiting (its request,
\* or init its timer) the spinner is not hidden, however the flows overlap.
C28_SpinnerCovers ==
  \A f \in Flows : app.flow[f] = "awaiting" => app.loading

\* what does hold: each flow ends in a finally that hides the spinner, so a
\* spinner shown for a flow is eventually hidden
C28_EventuallyHidden ==
  \A f \in Flows : (app.flow[f] = "awaiting") ~> ~app.loading

\* the spinner is hidden while the dashboard is still awaiting its listing
C28_HiddenWhileLoading ==
  /\ app.flow["loadAdminDashboard"] = "awaiting"
  /\ app.flow["init"] = "idle"
  /\ ~app.loading

\* the Admin records with username u
AdminsNamed(u) == {a \in admins : a.username = u}

\* C25: however often the seed script is run in sequence, there is never more
\* than one Admin record per username; a run that exits with code 0 leaves
\* exactly one record with its username; a record is created only by a run
\* that found none with that username, with the bcrypt hash of that run's
\* password; and no run changes or removes a record that exists.
C25_SeedIdempotent ==
  /\ [](\A u \in Usernames : Cardinality(AdminsNamed(u)) <= 1)
  /\ []((seed.pc = "exited" /\ seed.code = 0) =>
          Cardinality(AdminsNamed(seed.username)) = 1)
  /\ [][/\ admins \subseteq admins'
        /\ admins' # admins =>
             /\ AdminsNamed(seed.username) = {}
             /\ \E row \in admins' :
                  /\ admins' = admins \cup {row}
                  /\ row.username = seed.username
                  /\ row.password = bcryptHash(seed.password)]_vars

\* a third run, with another password, ended with code 0 and the record of
\* the first successful run is the only one of that name, unchanged
C25_Witness ==
  /\ seed.runs = 3
  /\ seed.pc = "exited" /\ seed.code = 0
  /\ seed.username = "pown" /\ seed.password = "wrong"
  /\ AdminsNamed("pown") = {[id |-> 1, username |-> "pown",
                             password |-> bcryptHash("1234")]}

\* a step in which func ran
FuncRan == debounced'.sinceCall > debounced.sinceCall

\* C29: func runs only when at least wait has passed since the most recent
\* call of the debounced function, at most once after that call, and with
\* that call's arguments; every call is followed by such a run unless a
\* later call takes its place, so a burst of calls less than wait apart ends
\* in exactly one run.
C29_Debounce ==
  /\ [][FuncRan => /\ now >= debounced.calledAt + Wait
                   /\ debounced.sinceCall = 0
                   /\ debounced'.ranWith = debounced.calledWith]_vars
  /\ [](debounced.sinceCall <= 1)
  /\ [](\A t \in debounced.timers :
          /\ t.id = debounced.timeout
          /\ t.due = debounced.calledAt + Wait
          /\ t.args = debounced.calledWith
          /\ debounced.sinceCall = 0)
  /\ (debounced.timers # {}) ~> (debounced.sinceCall = 1)

\* three calls, each taking the place of the one before, and then one run
\* with the arguments of the last
C29_Witness ==
  /\ debounced.ids = 3
  /\ debounced.cancelled = 2
  /\ debounced.sinceCall = 1
  /\ debounced.calledWith = "b"
  /\ debounced.ranWith = "b"
  /\ debounced.timers = {}

\* the hash matches no registered route and neither prefix
Unmatched(hash) == RouteHandler(hash) = NoHandler

\* the last handleRoute fell back to '/' and its hashchange is pending
FellBack ==
  /\ router.pending
  /\ router.handled # NoRoute
  /\ Unmatched(router.handled)
  /\ router.invoked = <<>>

\* C30: for a hash that matches no registered route and neither prefix,
\* handleRoute invokes no handler, leaves currentRoute as it was and
\* navigates to '/'; the hashchange that follows dispatches the '/' handler;
\* so every pending event leads to a handler within two handleRoute calls.
C30_FallbackTerminates ==
  /\ [][(router.pending /\ Unmatched(CurrentHash(router.hash))) =>
          /\ router'.invoked = <<>>
          /\ router'.currentRoute = router.currentRoute
          /\ router'.hash = Root
          /\ router'.pending]_vars
  /\ [][FellBack =>
          /\ router'.invoked = <<[handler |-> "showHomePage", arg |-> <<>>]>>
          /\ router'.currentRoute = Root
          /\ ~router'.pending]_vars
  /\ router.pending ~> (~router.pending /\ router.invoked # <<>>)

\* '#/about' was opened: no handler ran, currentRoute is still null and the
\* hashchange to '/' is pending
C30_Witness ==
  /\ router.handled = <<"/", "about">>
  /\ router.invoked = <<>>
  /\ router.currentRoute = NoRoute
  /\ router.hash = Root
  /\ router.pending

====
